---- MODULE Spec2Model ----
(***************************************************************************)
(* A model of src/simple.py: the ticker registry (get_or_create_books),    *)
(* the order books (addOrder) and the matching engine (matchOrder), run by *)
(* several threads.  One step of a thread is one access to shared memory:  *)
(* one AtomicReference get / set / compare_and_set, one read or write of   *)
(* a Value('i') quantity, one read or write of tickers[index] or of a      *)
(* TickerNode's next.  The local computation between two accesses belongs  *)
(* to the step of the access before it.                                    *)
(*                                                                         *)
(* None is 0.  An Order and a TickerNode are named by the slot of the      *)
(* addOrder call that constructed them; slots are numbered per thread.     *)
(* Prices are positive integers (ticks): the code only compares them.      *)
(* A quantity is held in a C int (Value('i')); every quantity that TLC     *)
(* can represent lies inside the C int range, where the conversion keeps   *)
(* the value.                                                              *)
(*                                                                         *)
(* The second part models src/advance.py on the same variables: the        *)
(* exchange's tickers array (get_or_create_books) and the two methods of   *)
(* LockFreeOrderBook (add_order, match_orders), under specifications of    *)
(* their own.  A thread runs passes of trade_worker: it is given a pair of *)
(* books once, adds its order to one of them and matches on that pair.     *)
(* The index a ticker hashes to differs from process to process; hashes    *)
(* holds the indices of the process and is chosen when it starts.          *)
(***************************************************************************)
EXTENDS Integers, Sequences, FiniteSets, TLC

(* ---- bounds of the model ---- *)
NumThreads == 2
\* orders created (validated addOrder calls) in one behaviour
MaxOrders == 4
\* matchOrder calls in one behaviour
MaxMatchCalls == 2
\* rejected (invalid) addOrder calls in one behaviour
MaxRejects == 1
\* simple.py:22 has MAX_RETRIES = 50; the model runs the same loop with a
\* smaller ceiling so that the fallback path is reached
MAX_RETRIES == 2
\* simple.py:195 has range(5); the model runs the same loop with fewer tries
FINAL_TRIES == 2
\* simple.py:23 has MAX_MATCHING_ITERATIONS = 5000; scaled likewise
MAX_MATCHING_ITERATIONS == 2

\* advance.py line 104: max_retries = 1000, the passes of one match_orders call
max_retries == 2

\* advance.py line 145: the indices of tickers[] that the hash of a ticker is
\* drawn from, out of the 1024 of line 140
NumIndices == 3

(* ---- program constants ---- *)
\* advance.py lines 140 and 145: the length of self.tickers
TICKER_SLOTS == 1024
NUM_TICKERS == 1024
\* 2166136261 = FNV_OFFSET_HI * 2^16 + FNV_OFFSET_LO (TLC's integers
\* have 32 bits with a sign, so the 32-bit hash is kept in two 16-bit limbs)
FNV_OFFSET_HI == 33052
FNV_OFFSET_LO == 40389
\* 16777619 = 2^24 + FNV_PRIME_LOW
FNV_PRIME_LOW == 403
LIMB == 65536

None == 0
Threads == 1..NumThreads
Slots == 1..(NumThreads * MaxOrders)
Sides == {"Buy", "Sell"}

(* ---- ticker symbols: strings as sequences of character codes ---- *)
AAPL == <<65, 65, 80, 76>>
QU == <<81, 85>>
GOOG == <<71, 79, 79, 71>>
TEST == <<84, 69, 83, 84>>
NoSymbol == <<>>
AllSymbols == {AAPL, QU, GOOG, TEST}

(* ---- hash_ticker: FNV-1a, 32 bits, modulo NUM_TICKERS ---- *)
RECURSIVE Xor(_, _)
Xor(a, b) ==
  IF a = 0 THEN b
  ELSE IF b = 0 THEN a
  ELSE (((a % 2) + (b % 2)) % 2) + 2 * Xor(a \div 2, b \div 2)

\* one round: h = h ^ ord(char); h = (h * 16777619) & 0xFFFFFFFF, on limbs
FnvStep(h, c) ==
  LET lo == Xor(h[2], c % LIMB)
      hi == Xor(h[1], c \div LIMB)
      p  == lo * FNV_PRIME_LOW
  IN  << (hi * FNV_PRIME_LOW + (p \div LIMB) + (lo % 256) * 256) % LIMB,
         p % LIMB >>

RECURSIVE FnvFold(_, _)
FnvFold(h, s) ==
  IF s = <<>> THEN h ELSE FnvFold(FnvStep(h, Head(s)), Tail(s))

hash_ticker(ticker_symbol) ==
  LET h == FnvFold(<<FNV_OFFSET_HI, FNV_OFFSET_LO>>, ticker_symbol)
  IN  ((h[1] % NUM_TICKERS) * (LIMB % NUM_TICKERS) + h[2]) % NUM_TICKERS

\* tickers[index] of a bucket that no modelled symbol hashes to stays None
\* for ever, so only these buckets are part of the state
Buckets == {hash_ticker(s) : s \in AllSymbols}

VARIABLES
  tickers,    \* tickers[index]: the first TickerNode of the bucket, or None
  nodeSym,    \* TickerNode.ticker_symbol (NoSymbol: not constructed)
  nodeNext,   \* TickerNode.next
  book,       \* TickerNode.buy_book / sell_book: the head Order, or None
  orders,     \* Order: order_type, ticker, price, the quantity it was given
  qty,        \* Order.quantity.value
  next,       \* Order.next
  qlock,      \* Order.quantity.get_lock(): the thread that holds it, or None
  outcome,    \* what addOrder did with the order: "none" (not constructed),
              \* "inflight", "ok" (linked by the main loop), "forced" (linked
              \* by the fallback), "failed" (None returned after the fallback)
  pc,         \* where each thread is
  loc,        \* each thread's local variables
  nadd,       \* validated addOrder calls made by each thread
  nmatch,     \* matchOrder calls made
  nrej,       \* rejected addOrder calls made
  alone,      \* no other thread has been inside a call since this one began
  matched,    \* per symbol, the matches counted (line 268) and the sum of
              \* their matched quantities (line 251)
  hashes      \* advance.py line 145: hash(ticker) % 1024 of each ticker in
              \* this process; simple.py has hash_ticker and uses none

vars == <<tickers, nodeSym, nodeNext, book, orders, qty, next, qlock, outcome,
          pc, loc, nadd, nmatch, nrej, alone, matched, hashes>>

shared == <<tickers, nodeSym, nodeNext, book, orders, qty, next, qlock>>

NoOrder == [order_type |-> "none", ticker |-> NoSymbol, price |-> 0,
            quantity |-> 0, node |-> 0]

Idle == [op |-> "none", result |-> None,
         order_type |-> "none", ticker_symbol |-> NoSymbol,
         quantity |-> 0, price |-> 0,
         index |-> 0, current |-> None, prev |-> None,
         books |-> None, new_order |-> None, retries |-> 0,
         nodes |-> <<>>, i |-> 0, expected |-> None, final_try |-> 0,
         matches_count |-> 0, current_ticker_node |-> None, iterations |-> 0,
         buy_head |-> None, sell_head |-> None,
         buy_qty_before |-> 0, sell_qty_before |-> 0, matched_quantity |-> 0,
         match_price |-> 0, passes |-> 0,
         new_books |-> None, current_head |-> None, next_node |-> None,
         todo |-> <<>>,
         reached_max |-> FALSE]

Init ==
  /\ tickers = [b \in Buckets |-> None]
  /\ nodeSym = [n \in Slots |-> NoSymbol]
  /\ nodeNext = [n \in Slots |-> None]
  /\ book = [n \in Slots |-> [Buy |-> None, Sell |-> None]]
  /\ orders = [o \in Slots |-> NoOrder]
  /\ qty = [o \in Slots |-> 0]
  /\ next = [o \in Slots |-> None]
  /\ qlock = [o \in Slots |-> None]
  /\ outcome = [o \in Slots |-> "none"]
  /\ pc = [t \in Threads |-> "idle"]
  /\ loc = [t \in Threads |-> Idle]
  /\ nadd = [t \in Threads |-> 0]
  /\ nmatch = 0
  /\ nrej = 0
  /\ alone = [t \in Threads |-> FALSE]
  /\ matched = [s \in AllSymbols |-> [count |-> 0, quantity |-> 0]]
  /\ hashes = <<>>

(* ---- helpers ---- *)
Min(S) == CHOOSE x \in S : \A y \in S : x <= y

Step(t, label, l) ==
  /\ pc' = [pc EXCEPT ![t] = label]
  /\ loc' = [loc EXCEPT ![t] = l]

\* the call returns: the locals die, the result stays with the caller
Return(t, l, result) ==
  /\ pc' = [pc EXCEPT ![t] = "idle"]
  /\ loc' = [loc EXCEPT ![t] = [Idle EXCEPT !.op = l.op, !.result = result,
                                            !.reached_max = l.reached_max]]

\* a call begins: it is alone if every other thread is outside any call, and
\* no call that is in flight, and no result held, is alone any longer
Begin(t) ==
  alone' = [u \in Threads |->
              IF u = t THEN \A v \in Threads \ {t} : pc[v] = "idle" ELSE FALSE]

(* ---- addOrder, lines 110-121: the call and its validation ---- *)
\* a validation that tests the quantity alone
RejectsQuantityOnly(quantity, price) == quantity <= 0

\* lines 112 and 116: the conditions under which addOrder rejects its arguments
Rejects(quantity, price) == quantity <= 0 \/ price <= 0

RECURSIVE Total(_, _)
Total(f, S) ==
  IF S = {} THEN 0 ELSE LET x == CHOOSE y \in S : TRUE IN f[x] + Total(f, S \ {x})

\* addOrder(order_type, ticker_symbol, quantity, price) is called by thread t
\* with arguments a of the workload W: lines 112-118 return None, or line 121
\* calls get_or_create_books (line 84 computes the index).  The arguments of
\* a rejected call stay on record with its result.
AddOrderCall(t, W) ==
  /\ pc[t] = "idle"
  /\ t \in W.adders
  /\ \E a \in W.orders[t] :
       LET l == [Idle EXCEPT !.op = "add", !.order_type = a[1],
                             !.ticker_symbol = a[2], !.quantity = a[3],
                             !.price = a[4]]
       IN  IF Rejects(l.quantity, l.price)
             THEN /\ nrej < W.maxRejects
                  /\ nrej' = nrej + 1
                  /\ pc' = pc
                  /\ loc' = [loc EXCEPT ![t] = l]
                  /\ UNCHANGED nadd
             ELSE /\ Total(nadd, Threads) < W.maxOrders
                  /\ nadd' = [nadd EXCEPT ![t] = @ + 1]
                  /\ Step(t, "g_check",
                          [l EXCEPT !.index = hash_ticker(l.ticker_symbol),
                                    !.new_order = (t - 1) * MaxOrders + nadd[t] + 1])
                  /\ UNCHANGED nrej
  /\ Begin(t)
  /\ UNCHANGED <<shared, outcome, nmatch, matched, hashes>>

\* matchOrder() is called by thread t (line 210)
CallMatch(t, W) ==
  /\ pc[t] = "idle"
  /\ t \in W.matchers
  /\ nmatch < W.maxMatch
  /\ nmatch' = nmatch + 1
  /\ Step(t, "m_bucket", [Idle EXCEPT !.op = "match", !.index = Min(Buckets)])
  /\ Begin(t)
  /\ UNCHANGED <<shared, outcome, nadd, nrej, matched, hashes>>

(* ---- get_or_create_books, lines 82-107 ---- *)
\* get_or_create_books returns the books of TickerNode n; addOrder constructs
\* the Order (line 122) and picks its book (lines 124-125)
GotBooks(t, l, n) ==
  /\ Step(t, "a_snap", [l EXCEPT !.books = n, !.current = None, !.prev = None])
  /\ orders' = [orders EXCEPT ![l.new_order] =
                  [order_type |-> l.order_type, ticker |-> l.ticker_symbol,
                   price |-> l.price, quantity |-> l.quantity, node |-> n]]
  /\ qty' = [qty EXCEPT ![l.new_order] = l.quantity]
  /\ outcome' = [outcome EXCEPT ![l.new_order] = "inflight"]

\* line 87: if tickers[index] is None
GocCheck(t) ==
  /\ pc[t] = "g_check"
  /\ Step(t, IF tickers[loc[t].index] = None THEN "g_install" ELSE "g_first", loc[t])
  /\ UNCHANGED <<shared, outcome, nadd, nmatch, nrej, alone, matched, hashes>>

\* lines 88-90: new_node = TickerNode(ticker_symbol); tickers[index] = new_node
GocInstall(t) ==
  /\ pc[t] = "g_install"
  /\ LET l == loc[t] IN
       /\ tickers' = [tickers EXCEPT ![l.index] = l.new_order]
       /\ nodeSym' = [nodeSym EXCEPT ![l.new_order] = l.ticker_symbol]
       /\ GotBooks(t, l, l.new_order)
  /\ UNCHANGED <<nodeNext, book, next, qlock, nadd, nmatch, nrej, alone, matched, hashes>>

\* line 93: current = tickers[index]; line 98 on the first node
GocFirst(t) ==
  /\ pc[t] = "g_first"
  /\ LET l == loc[t]
         c == tickers[l.index]
     IN  IF nodeSym[c] = l.ticker_symbol
           THEN GotBooks(t, l, c) /\ UNCHANGED nodeSym
           ELSE /\ Step(t, "g_walk", [l EXCEPT !.current = c])
                /\ UNCHANGED <<nodeSym, orders, qty, outcome>>
  /\ UNCHANGED <<tickers, nodeNext, book, next, qlock, nadd, nmatch, nrej, alone, matched, hashes>>

\* lines 101-102: prev = current; current = current.next; then lines 97-100
GocWalk(t) ==
  /\ pc[t] = "g_walk"
  /\ LET l == loc[t]
         n == nodeNext[l.current]
     IN  IF n = None
           THEN /\ Step(t, "g_append", [l EXCEPT !.prev = l.current, !.current = None])
                /\ UNCHANGED <<orders, qty, outcome>>
           ELSE IF nodeSym[n] = l.ticker_symbol
             THEN GotBooks(t, l, n)
             ELSE /\ Step(t, "g_walk", [l EXCEPT !.prev = l.current, !.current = n])
                  /\ UNCHANGED <<orders, qty, outcome>>
  /\ UNCHANGED <<tickers, nodeSym, nodeNext, book, next, qlock,
                 nadd, nmatch, nrej, alone, matched, hashes>>

\* lines 105-107: new_node = TickerNode(ticker_symbol); prev.next = new_node
GocAppend(t) ==
  /\ pc[t] = "g_append"
  /\ LET l == loc[t] IN
       /\ nodeNext' = [nodeNext EXCEPT ![l.prev] = l.new_order]
       /\ nodeSym' = [nodeSym EXCEPT ![l.new_order] = l.ticker_symbol]
       /\ GotBooks(t, l, l.new_order)
  /\ UNCHANGED <<tickers, book, next, qlock, nadd, nmatch, nrej, alone, matched, hashes>>

(* ---- addOrder, lines 128-205: insertion ---- *)
is_buy(l) == l.order_type = "Buy"

\* the thread's book (line 125) and its head
Head_(l) == book[l.books][IF is_buy(l) THEN "Buy" ELSE "Sell"]
SetHead(l, o) == book' = [book EXCEPT ![l.books][IF is_buy(l) THEN "Buy" ELSE "Sell"] = o]

\* a comparison under which no order ranks before another
OutranksNever(l, o) == FALSE

\* a comparison under which an equal price ranks before the order met
OutranksOrTies(l, o) ==
  \/ is_buy(l) /\ l.price >= orders[o].price
  \/ ~is_buy(l) /\ l.price <= orders[o].price

\* lines 141 and 152: the new order's price is strictly better than o's
Outranks(l, o) ==
  \/ is_buy(l) /\ l.price > orders[o].price
  \/ ~is_buy(l) /\ l.price < orders[o].price

\* lines 176-180, then the loop test of line 129 and the test of line 188
Backoff(l) ==
  LET r == l.retries + 1
  IN  [pc |-> IF r < MAX_RETRIES THEN "a_snap" ELSE "a_f1",
       l  |-> [l EXCEPT !.retries = r, !.nodes = <<>>, !.i = 0,
                        !.expected = None, !.current = None]]

\* an end insertion that is tried on odd retries only
Case3OddOnly(l) ==
  IF l.retries % 2 = 1 /\ Len(l.nodes) > 0
    THEN [pc |-> "a_t1", l |-> l]
    ELSE Backoff(l)

\* line 167: Case 3 is entered after Case 2, on even retries
Case3(l) ==
  IF l.retries % 2 = 0 /\ Len(l.nodes) > 0
    THEN [pc |-> "a_t1", l |-> l]
    ELSE Backoff(l)

\* lines 141-152 on the finished snapshot: which case applies
Decide(l) ==
  IF Len(l.nodes) = 0 \/ Outranks(l, l.nodes[1])
    THEN [pc |-> "a_h1", l |-> [l EXCEPT !.nodes = <<>>]]
    ELSE LET found == {i \in 1..(Len(l.nodes) - 1) : Outranks(l, l.nodes[i + 1])}
         IN  IF found # {}
               THEN [pc |-> "a_m1", l |-> [l EXCEPT !.i = Min(found)]]
               ELSE Case3(l)

Go(t, x) == Step(t, x.pc, x.l)

\* a CAS of addOrder succeeded: lines 144-145, 162-163, 172-173 ("ok") and
\* 197-198 ("forced"): addOrder returns new_order
Inserted(t, l, how) ==
  /\ Return(t, l, l.new_order)
  /\ outcome' = [outcome EXCEPT ![l.new_order] = how]

\* lines 132-133: nodes = []; current = book.get()
AddSnap(t) ==
  /\ pc[t] = "a_snap"
  /\ LET l == loc[t]
         c == Head_(l)
     IN  IF c = None
           THEN Go(t, Decide([l EXCEPT !.nodes = <<>>]))
           ELSE Step(t, "a_walk", [l EXCEPT !.nodes = <<c>>, !.current = c])
  /\ UNCHANGED <<shared, outcome, nadd, nmatch, nrej, alone, matched, hashes>>

\* lines 136-138: nodes.append(current); current = current.next.get()
AddWalk(t) ==
  /\ pc[t] = "a_walk"
  /\ LET l == loc[t]
         n == next[l.current]
     IN  IF n = None
           THEN Go(t, Decide([l EXCEPT !.current = None]))
           ELSE Step(t, "a_walk", [l EXCEPT !.nodes = Append(@, n), !.current = n])
  /\ UNCHANGED <<shared, outcome, nadd, nmatch, nrej, alone, matched, hashes>>

\* line 142: new_order.next.set(book.get())
AddHeadLink(t) ==
  /\ pc[t] = "a_h1"
  /\ next' = [next EXCEPT ![loc[t].new_order] = Head_(loc[t])]
  /\ Step(t, "a_h2", loc[t])
  /\ UNCHANGED <<tickers, nodeSym, nodeNext, book, orders, qty, qlock,
                 outcome, nadd, nmatch, nrej, alone, matched, hashes>>

\* line 143, the argument: book.get()
AddHeadRead(t) ==
  /\ pc[t] = "a_h2"
  /\ Step(t, "a_hcas", [loc[t] EXCEPT !.expected = Head_(loc[t])])
  /\ UNCHANGED <<shared, outcome, nadd, nmatch, nrej, alone, matched, hashes>>

\* line 143: book.compare_and_set(<the head just read>, new_order)
AddHeadCas(t) ==
  /\ pc[t] = "a_hcas"
  /\ LET l == loc[t] IN
       IF Head_(l) = l.expected
         THEN SetHead(l, l.new_order) /\ Inserted(t, l, "ok")
         ELSE Go(t, Backoff(l)) /\ UNCHANGED <<book, outcome>>
  /\ UNCHANGED <<tickers, nodeSym, nodeNext, orders, qty, next, qlock,
                 nadd, nmatch, nrej, alone, matched, hashes>>

\* a link from the new order back to the node it is put behind
MidLinkSelf(l) == l.nodes[l.i]

\* line 160: what new_order.next is set to before the mid-list CAS
MidLink(l) == l.nodes[l.i + 1]

\* lines 154-160: actual_next = current.next.get(); compare; new_order.next.set
AddMidVerify(t) ==
  /\ pc[t] = "a_m1"
  /\ LET l == loc[t] IN
       IF next[l.nodes[l.i]] # l.nodes[l.i + 1]
         THEN Go(t, Case3(l)) /\ UNCHANGED next
         ELSE /\ next' = [next EXCEPT ![l.new_order] = MidLink(l)]
              /\ Step(t, "a_mcas", l)
  /\ UNCHANGED <<tickers, nodeSym, nodeNext, book, orders, qty, qlock,
                 outcome, nadd, nmatch, nrej, alone, matched, hashes>>

\* line 161: current.next.compare_and_set(next_node, new_order)
AddMidCas(t) ==
  /\ pc[t] = "a_mcas"
  /\ LET l == loc[t] IN
       IF next[l.nodes[l.i]] = l.nodes[l.i + 1]
         THEN /\ next' = [next EXCEPT ![l.nodes[l.i]] = l.new_order]
              /\ Inserted(t, l, "ok")
         ELSE Go(t, Case3(l)) /\ UNCHANGED <<next, outcome>>
  /\ UNCHANGED <<tickers, nodeSym, nodeNext, book, orders, qty, qlock,
                 nadd, nmatch, nrej, alone, matched, hashes>>

\* lines 168-170: last_node.next.get() is None; new_order.next.set(None)
AddTailVerify(t) ==
  /\ pc[t] = "a_t1"
  /\ LET l == loc[t] IN
       IF next[l.nodes[Len(l.nodes)]] = None
         THEN /\ next' = [next EXCEPT ![l.new_order] = None]
              /\ Step(t, "a_tcas", l)
         ELSE Go(t, Backoff(l)) /\ UNCHANGED next
  /\ UNCHANGED <<tickers, nodeSym, nodeNext, book, orders, qty, qlock,
                 outcome, nadd, nmatch, nrej, alone, matched, hashes>>

\* line 171: last_node.next.compare_and_set(None, new_order)
AddTailCas(t) ==
  /\ pc[t] = "a_tcas"
  /\ LET l == loc[t] IN
       IF next[l.nodes[Len(l.nodes)]] = None
         THEN /\ next' = [next EXCEPT ![l.nodes[Len(l.nodes)]] = l.new_order]
              /\ Inserted(t, l, "ok")
         ELSE Go(t, Backoff(l)) /\ UNCHANGED <<next, outcome>>
  /\ UNCHANGED <<tickers, nodeSym, nodeNext, book, orders, qty, qlock,
                 nadd, nmatch, nrej, alone, matched, hashes>>

\* lines 191-192: current_head = book.get(); new_order.next.set(current_head)
AddFallbackLink(t) ==
  /\ pc[t] = "a_f1"
  /\ next' = [next EXCEPT ![loc[t].new_order] = Head_(loc[t])]
  /\ Step(t, "a_f2", [loc[t] EXCEPT !.final_try = 0])
  /\ UNCHANGED <<tickers, nodeSym, nodeNext, book, orders, qty, qlock,
                 outcome, nadd, nmatch, nrej, alone, matched, hashes>>

\* line 196, the argument: book.get()
AddFallbackRead(t) ==
  /\ pc[t] = "a_f2"
  /\ Step(t, "a_fcas", [loc[t] EXCEPT !.expected = Head_(loc[t])])
  /\ UNCHANGED <<shared, outcome, nadd, nmatch, nrej, alone, matched, hashes>>

\* a fallback that gives up after its first failed CAS
AddFallbackCasOnce(t) ==
  /\ pc[t] = "a_fcas"
  /\ LET l == loc[t] IN
       IF Head_(l) = l.expected
         THEN SetHead(l, l.new_order) /\ Inserted(t, l, "forced")
         ELSE /\ UNCHANGED book
              /\ Return(t, l, None)
              /\ outcome' = [outcome EXCEPT ![l.new_order] = "failed"]
  /\ UNCHANGED <<tickers, nodeSym, nodeNext, orders, qty, next, qlock,
                 nadd, nmatch, nrej, alone, matched, hashes>>

\* lines 196-205: the fallback CAS; after the last try addOrder returns None
AddFallbackCas(t) ==
  /\ pc[t] = "a_fcas"
  /\ LET l == loc[t] IN
       IF Head_(l) = l.expected
         THEN SetHead(l, l.new_order) /\ Inserted(t, l, "forced")
         ELSE /\ UNCHANGED book
              /\ IF l.final_try + 1 < FINAL_TRIES
                   THEN /\ Step(t, "a_f2", [l EXCEPT !.final_try = @ + 1,
                                                       !.expected = None])
                        /\ UNCHANGED outcome
                   ELSE /\ Return(t, l, None)
                        /\ outcome' = [outcome EXCEPT ![l.new_order] = "failed"]
  /\ UNCHANGED <<tickers, nodeSym, nodeNext, orders, qty, next, qlock,
                 nadd, nmatch, nrej, alone, matched, hashes>>

(* ---- matchOrder, lines 208-293 ---- *)
\* for index in range(NUM_TICKERS): the buckets after index that can hold a node
LaterBuckets(index) == {b \in Buckets : b > index}

\* line 213 advances to the next bucket, or line 293 returns matches_count
NextBucket(t, l) ==
  IF LaterBuckets(l.index) = {}
    THEN Return(t, l, l.matches_count)
    ELSE Step(t, "m_bucket", [l EXCEPT !.index = Min(LaterBuckets(l.index)),
                                       !.current_ticker_node = None,
                                       !.iterations = 0, !.passes = 0])

\* the locals of one pass of the matching loop, dead at the loop's top
Fresh(l) == [l EXCEPT !.buy_head = None, !.sell_head = None,
                      !.buy_qty_before = 0, !.sell_qty_before = 0,
                      !.matched_quantity = 0, !.match_price = 0,
                      !.expected = None]

\* line 223: while iterations < MAX_MATCHING_ITERATIONS; line 287 past the loop.
\* passes counts the times the loop's body is entered for one TickerNode.
LoopTop(l) ==
  IF l.iterations < MAX_MATCHING_ITERATIONS
    THEN [pc |-> "m_rb", l |-> [Fresh(l) EXCEPT !.passes = @ + 1]]
    ELSE [pc |-> "m_next", l |-> [Fresh(l) EXCEPT !.reached_max = TRUE]]

\* a continue statement (lines 244, 248, 258): back to the loop's test
Continue(l) == LoopTop(l)

\* lines 281-285: iterations += 1, then the loop's test
EndOfPass(l) == LoopTop([l EXCEPT !.iterations = @ + 1])

\* line 214: current_ticker_node = tickers[index]; lines 217-222
MatchBucket(t) ==
  /\ pc[t] = "m_bucket"
  /\ LET l == loc[t]
         n == tickers[l.index]
     IN  IF n = None
           THEN NextBucket(t, l)
           ELSE Go(t, LoopTop([l EXCEPT !.current_ticker_node = n, !.iterations = 0,
                                            !.passes = 0]))
  /\ UNCHANGED <<shared, outcome, nadd, nmatch, nrej, alone, matched, hashes>>

\* line 225: buy_head = buy_book.get()
MatchReadBuy(t) ==
  /\ pc[t] = "m_rb"
  /\ Step(t, "m_rs", [loc[t] EXCEPT
                        !.buy_head = book[loc[t].current_ticker_node].Buy])
  /\ UNCHANGED <<shared, outcome, nadd, nmatch, nrej, alone, matched, hashes>>

\* a loop that breaks on an empty book only
NoCrossEmptyOnly(buy_head, sell_head) == buy_head = None \/ sell_head = None

\* a loop that also breaks when the two heads have the same price
NoCrossOrEqual(buy_head, sell_head) ==
  \/ buy_head = None
  \/ sell_head = None
  \/ orders[buy_head].price <= orders[sell_head].price

\* lines 229-233: the loop breaks when a book is empty or the heads do not cross
NoCross(buy_head, sell_head) ==
  \/ buy_head = None
  \/ sell_head = None
  \/ orders[buy_head].price < orders[sell_head].price

\* line 226: sell_head = sell_book.get(); lines 229-233
MatchReadSell(t) ==
  /\ pc[t] = "m_rs"
  /\ LET l == loc[t]
         sh == book[l.current_ticker_node].Sell
     IN  IF NoCross(l.buy_head, sh)
           THEN Step(t, "m_next", Fresh(l))
           ELSE Step(t, "m_qb", [l EXCEPT !.sell_head = sh])
  /\ UNCHANGED <<shared, outcome, nadd, nmatch, nrej, alone, matched, hashes>>

\* Value.value takes the quantity's lock for the read
CanRead(t, o) == qlock[o] = None \/ qlock[o] = t

\* line 238: buy_qty_before = buy_head.quantity.value
MatchSnapBuy(t) ==
  /\ pc[t] = "m_qb"
  /\ CanRead(t, loc[t].buy_head)
  /\ Step(t, "m_qs", [loc[t] EXCEPT !.buy_qty_before = qty[loc[t].buy_head]])
  /\ UNCHANGED <<shared, outcome, nadd, nmatch, nrej, alone, matched, hashes>>

\* a match that takes the buy head's whole quantity
MatchedQuantityBuy(buy_qty_before, sell_qty_before) == buy_qty_before

\* line 251
MatchedQuantity(buy_qty_before, sell_qty_before) ==
  IF buy_qty_before <= sell_qty_before THEN buy_qty_before ELSE sell_qty_before

\* a snapshot that goes on to the update whatever the quantities are
MatchSnapSellNoSkip(t) ==
  /\ pc[t] = "m_qs"
  /\ CanRead(t, loc[t].sell_head)
  /\ LET l == [loc[t] EXCEPT !.sell_qty_before = qty[loc[t].sell_head]] IN
       Step(t, "m_lockb",
            [l EXCEPT !.matched_quantity =
                        MatchedQuantity(l.buy_qty_before, l.sell_qty_before)])
  /\ UNCHANGED <<shared, outcome, nadd, nmatch, nrej, alone, matched, hashes>>

\* line 239: sell_qty_before = sell_head.quantity.value; lines 242-251
MatchSnapSell(t) ==
  /\ pc[t] = "m_qs"
  /\ CanRead(t, loc[t].sell_head)
  /\ LET l == [loc[t] EXCEPT !.sell_qty_before = qty[loc[t].sell_head]] IN
       IF l.buy_qty_before <= 0 THEN Step(t, "m_bn", l)
       ELSE IF l.sell_qty_before <= 0 THEN Step(t, "m_sn", l)
       ELSE Step(t, "m_lockb",
                 [l EXCEPT !.matched_quantity =
                             MatchedQuantity(l.buy_qty_before, l.sell_qty_before)])
  /\ UNCHANGED <<shared, outcome, nadd, nmatch, nrej, alone, matched, hashes>>

\* line 243, the argument: buy_head.next.get()
MatchSkipBuyRead(t) ==
  /\ pc[t] = "m_bn"
  /\ Step(t, "m_bcas", [loc[t] EXCEPT !.expected = next[loc[t].buy_head]])
  /\ UNCHANGED <<shared, outcome, nadd, nmatch, nrej, alone, matched, hashes>>

\* lines 243-244: buy_book.compare_and_set(buy_head, <next>); continue
MatchSkipBuyCas(t) ==
  /\ pc[t] = "m_bcas"
  /\ LET l == loc[t] IN
       /\ book' = IF book[l.current_ticker_node].Buy = l.buy_head
                    THEN [book EXCEPT ![l.current_ticker_node].Buy = l.expected]
                    ELSE book
       /\ Go(t, Continue(l))
  /\ UNCHANGED <<tickers, nodeSym, nodeNext, orders, qty, next, qlock,
                 outcome, nadd, nmatch, nrej, alone, matched, hashes>>

\* line 247, the argument: sell_head.next.get()
MatchSkipSellRead(t) ==
  /\ pc[t] = "m_sn"
  /\ Step(t, "m_scas", [loc[t] EXCEPT !.expected = next[loc[t].sell_head]])
  /\ UNCHANGED <<shared, outcome, nadd, nmatch, nrej, alone, matched, hashes>>

\* lines 247-248: sell_book.compare_and_set(sell_head, <next>); continue
MatchSkipSellCas(t) ==
  /\ pc[t] = "m_scas"
  /\ LET l == loc[t] IN
       /\ book' = IF book[l.current_ticker_node].Sell = l.sell_head
                    THEN [book EXCEPT ![l.current_ticker_node].Sell = l.expected]
                    ELSE book
       /\ Go(t, Continue(l))
  /\ UNCHANGED <<tickers, nodeSym, nodeNext, orders, qty, next, qlock,
                 outcome, nadd, nmatch, nrej, alone, matched, hashes>>

\* an acquisition that takes the sell head's lock first
MatchLockSellFirst(t) ==
  /\ pc[t] = "m_lockb"
  /\ qlock[loc[t].sell_head] = None
  /\ qlock' = [qlock EXCEPT ![loc[t].sell_head] = t]
  /\ Step(t, "m_locks", loc[t])
  /\ UNCHANGED <<tickers, nodeSym, nodeNext, book, orders, qty, next,
                 outcome, nadd, nmatch, nrej, alone, matched, hashes>>

\* line 254, first item: buy_head.quantity.get_lock() is acquired
MatchLockBuy(t) ==
  /\ pc[t] = "m_lockb"
  /\ qlock[loc[t].buy_head] = None
  /\ qlock' = [qlock EXCEPT ![loc[t].buy_head] = t]
  /\ Step(t, "m_locks", loc[t])
  /\ UNCHANGED <<tickers, nodeSym, nodeNext, book, orders, qty, next,
                 outcome, nadd, nmatch, nrej, alone, matched, hashes>>

\* an update that does not look at the quantities again
ChangedNever(l) == FALSE

\* line 256: the quantities differ from the snapshot
Changed(l) ==
  \/ qty[l.buy_head] # l.buy_qty_before
  \/ qty[l.sell_head] # l.sell_qty_before

\* an update that leaves the with block of line 254 holding buy_head's lock
MatchUpdateHolding(t) ==
  /\ pc[t] = "m_locks"
  /\ qlock[loc[t].sell_head] = None
  /\ LET l == loc[t] IN
       IF Changed(l)
         THEN Go(t, Continue(l)) /\ UNCHANGED <<qty, matched>>
         ELSE /\ qty' = [qty EXCEPT ![l.buy_head] = @ - l.matched_quantity,
                                    ![l.sell_head] = @ - l.matched_quantity]
              /\ matched' = [matched EXCEPT
                               ![nodeSym[l.current_ticker_node]].count = @ + 1,
                               ![nodeSym[l.current_ticker_node]].quantity =
                                   @ + l.matched_quantity]
              /\ Step(t, "m_zb", [l EXCEPT !.matches_count = @ + 1])
  /\ UNCHANGED <<tickers, nodeSym, nodeNext, book, orders, next, qlock,
                 outcome, nadd, nmatch, nrej, alone, hashes>>

\* an update that decrements the buy order only
MatchUpdateBuyOnly(t) ==
  /\ pc[t] = "m_locks"
  /\ qlock[loc[t].sell_head] = None
  /\ qlock' = [qlock EXCEPT ![loc[t].buy_head] = None]
  /\ LET l == loc[t] IN
       IF Changed(l)
         THEN Go(t, Continue(l)) /\ UNCHANGED <<qty, matched>>
         ELSE /\ qty' = [qty EXCEPT ![l.buy_head] = @ - l.matched_quantity]
              /\ matched' = [matched EXCEPT
                               ![nodeSym[l.current_ticker_node]].count = @ + 1,
                               ![nodeSym[l.current_ticker_node]].quantity =
                                   @ + l.matched_quantity]
              /\ Step(t, "m_zb", [l EXCEPT !.matches_count = @ + 1])
  /\ UNCHANGED <<tickers, nodeSym, nodeNext, book, orders, next,
                 outcome, nadd, nmatch, nrej, alone, hashes>>

\* a log line that takes the price from the buy order
MatchPriceBuy(l) == orders[l.buy_head].price

\* lines 265-266: the price the match is logged at
MatchPrice(l) == orders[l.sell_head].price

\* line 218, for the log of lines 265-266 and the count of line 268
MatchSymbol(l) == nodeSym[l.current_ticker_node]

\* line 254, second item, to line 268: sell_head's lock is acquired, the
\* quantities are checked again and updated, both locks are released.  No other
\* thread reads or writes either quantity while both locks are held.
MatchUpdate(t) ==
  /\ pc[t] = "m_locks"
  /\ qlock[loc[t].sell_head] = None
  /\ qlock' = [qlock EXCEPT ![loc[t].buy_head] = None]
  /\ LET l == loc[t] IN
       IF Changed(l)
         THEN Go(t, Continue(l)) /\ UNCHANGED <<qty, matched>>
         ELSE /\ qty' = [qty EXCEPT ![l.buy_head] = @ - l.matched_quantity,
                                    ![l.sell_head] = @ - l.matched_quantity]
              /\ matched' = [matched EXCEPT
                               ![MatchSymbol(l)].count = @ + 1,
                               ![MatchSymbol(l)].quantity = @ + l.matched_quantity]
              /\ Step(t, "m_zb", [l EXCEPT !.matches_count = @ + 1,
                                           !.match_price = MatchPrice(l)])
  /\ UNCHANGED <<tickers, nodeSym, nodeNext, book, orders, next,
                 outcome, nadd, nmatch, nrej, alone, hashes>>

\* line 271: if buy_head.quantity.value <= 0
MatchZeroBuy(t) ==
  /\ pc[t] = "m_zb"
  /\ CanRead(t, loc[t].buy_head)
  /\ Step(t, IF qty[loc[t].buy_head] <= 0 THEN "m_zbn" ELSE "m_zs", loc[t])
  /\ UNCHANGED <<shared, outcome, nadd, nmatch, nrej, alone, matched, hashes>>

\* line 272, the argument: buy_head.next.get()
MatchDropBuyRead(t) ==
  /\ pc[t] = "m_zbn"
  /\ Step(t, "m_zbcas", [loc[t] EXCEPT !.expected = next[loc[t].buy_head]])
  /\ UNCHANGED <<shared, outcome, nadd, nmatch, nrej, alone, matched, hashes>>

\* line 272: buy_book.compare_and_set(buy_head, <next>)
MatchDropBuyCas(t) ==
  /\ pc[t] = "m_zbcas"
  /\ LET l == loc[t] IN
       /\ book' = IF book[l.current_ticker_node].Buy = l.buy_head
                    THEN [book EXCEPT ![l.current_ticker_node].Buy = l.expected]
                    ELSE book
       /\ Step(t, "m_zs", [l EXCEPT !.expected = None])
  /\ UNCHANGED <<tickers, nodeSym, nodeNext, orders, qty, next, qlock,
                 outcome, nadd, nmatch, nrej, alone, matched, hashes>>

\* line 274: if sell_head.quantity.value <= 0; else lines 281-285
MatchZeroSell(t) ==
  /\ pc[t] = "m_zs"
  /\ CanRead(t, loc[t].sell_head)
  /\ IF qty[loc[t].sell_head] <= 0
       THEN Step(t, "m_zsn", loc[t])
       ELSE Go(t, EndOfPass(loc[t]))
  /\ UNCHANGED <<shared, outcome, nadd, nmatch, nrej, alone, matched, hashes>>

\* line 275, the argument: sell_head.next.get()
MatchDropSellRead(t) ==
  /\ pc[t] = "m_zsn"
  /\ Step(t, "m_zscas", [loc[t] EXCEPT !.expected = next[loc[t].sell_head]])
  /\ UNCHANGED <<shared, outcome, nadd, nmatch, nrej, alone, matched, hashes>>

\* line 275: sell_book.compare_and_set(sell_head, <next>); lines 281-285
MatchDropSellCas(t) ==
  /\ pc[t] = "m_zscas"
  /\ LET l == loc[t] IN
       /\ book' = IF book[l.current_ticker_node].Sell = l.sell_head
                    THEN [book EXCEPT ![l.current_ticker_node].Sell = l.expected]
                    ELSE book
       /\ Go(t, EndOfPass(l))
  /\ UNCHANGED <<tickers, nodeSym, nodeNext, orders, qty, next, qlock,
                 outcome, nadd, nmatch, nrej, alone, matched, hashes>>

\* line 291: current_ticker_node = current_ticker_node.next; lines 217-222
MatchNextNode(t) ==
  /\ pc[t] = "m_next"
  /\ LET l == loc[t]
         n == nodeNext[l.current_ticker_node]
     IN  IF n = None
           THEN NextBucket(t, l)
           ELSE Go(t, LoopTop([l EXCEPT !.current_ticker_node = n, !.iterations = 0,
                                            !.passes = 0]))
  /\ UNCHANGED <<shared, outcome, nadd, nmatch, nrej, alone, matched, hashes>>

(* ---- the specifications ---- *)
\* lines 82-180: the registry and the main loop of addOrder
AddMainSteps(t) ==
  \/ GocCheck(t) \/ GocInstall(t) \/ GocFirst(t) \/ GocWalk(t) \/ GocAppend(t)
  \/ AddSnap(t) \/ AddWalk(t)
  \/ AddHeadLink(t) \/ AddHeadRead(t) \/ AddHeadCas(t)
  \/ AddMidVerify(t) \/ AddMidCas(t)
  \/ AddTailVerify(t) \/ AddTailCas(t)

\* lines 188-205: the fallback, entered after a CAS of the main loop failed
AddFallbackSteps(t) ==
  AddFallbackLink(t) \/ AddFallbackRead(t) \/ AddFallbackCas(t)

AddSteps(t) == AddMainSteps(t) \/ AddFallbackSteps(t)

\* lines 208-293 but lines 242-248
MatchMainSteps(t) ==
  \/ MatchBucket(t) \/ MatchReadBuy(t) \/ MatchReadSell(t)
  \/ MatchSnapBuy(t) \/ MatchSnapSell(t)
  \/ MatchLockBuy(t) \/ MatchUpdate(t)
  \/ MatchZeroBuy(t) \/ MatchDropBuyRead(t) \/ MatchDropBuyCas(t)
  \/ MatchZeroSell(t) \/ MatchDropSellRead(t) \/ MatchDropSellCas(t)
  \/ MatchNextNode(t)

\* lines 242-248: a head whose quantity another call left at 0 is skipped
MatchSkipSteps(t) ==
  \/ MatchSkipBuyRead(t) \/ MatchSkipBuyCas(t)
  \/ MatchSkipSellRead(t) \/ MatchSkipSellCas(t)

MatchSteps(t) == MatchMainSteps(t) \/ MatchSkipSteps(t)

\* argument tuples <<order_type, ticker_symbol, quantity, price>>
Args(types, symbols, quantities, prices) ==
  {<<ot, s, q, p>> : ot \in types, s \in symbols, q \in quantities, p \in prices}

\* Spec: every thread adds and matches; one symbol with both books, and a
\* second symbol in the same bucket
Workload ==
  [adders |-> Threads, matchers |-> Threads,
   orders |-> [t \in Threads |->
                 Args({"Buy", "Sell"}, {AAPL}, {1}, {1, 2}) \cup {<<"Buy", QU, 1, 1>>}],
   maxOrders |-> MaxOrders - 1, maxRejects |-> 0, maxMatch |-> MaxMatchCalls]

Next ==
  \E t \in Threads :
    AddOrderCall(t, Workload) \/ CallMatch(t, Workload) \/ AddSteps(t) \/ MatchSteps(t)

Spec == Init /\ [][Next]_vars

\* SpecFair: a fair scheduler: a thread that is inside a call and
\* can take its next step (it is not waiting for a lock another thread
\* holds) takes it in the end
Fairness == \A t \in Threads : WF_vars(AddSteps(t) \/ MatchSteps(t))

\* the workload of SpecFair: every thread adds and matches, thread 1 orders of
\* either side and of a second symbol in the same bucket, the others one kind
WorkloadFair ==
  [adders |-> Threads, matchers |-> Threads,
   orders |-> [t \in Threads |->
                 IF t = 1
                   THEN {<<"Buy", AAPL, 1, 2>>, <<"Sell", AAPL, 1, 1>>,
                         <<"Buy", QU, 1, 1>>}
                   ELSE {<<"Buy", AAPL, 1, 1>>}],
   maxOrders |-> MaxOrders - 1, maxRejects |-> 0, maxMatch |-> MaxMatchCalls]

NextFair ==
  \E t \in Threads :
    \/ AddOrderCall(t, WorkloadFair) \/ CallMatch(t, WorkloadFair)
    \/ AddSteps(t) \/ MatchSteps(t)

SpecFair == Init /\ [][NextFair]_vars /\ Fairness

\* SpecAdd: every thread adds, nobody matches; one deep buy book, a second
\* symbol in the same bucket, and calls with invalid arguments
WorkloadAdd ==
  [adders |-> Threads, matchers |-> {},
   orders |-> [t \in Threads |->
                 Args({"Buy"}, {AAPL}, {1}, {1, 2, 3})
                   \cup {<<"Buy", QU, 1, 1>>, <<"Buy", AAPL, 0, 1>>,
                         <<"Sell", QU, 1, 0>>, <<"Sell", AAPL, -1, -1>>}],
   maxOrders |-> MaxOrders, maxRejects |-> MaxRejects, maxMatch |-> 0]

NextAdd == \E t \in Threads : AddOrderCall(t, WorkloadAdd) \/ AddSteps(t)

SpecAdd == Init /\ [][NextAdd]_vars

\* SpecMatch: every thread adds and matches; thread 1 adds orders of either
\* side with quantities that fill partly, the other threads add one kind
WorkloadMatch ==
  [adders |-> Threads, matchers |-> Threads,
   orders |-> [t \in Threads |->
                 IF t = 1
                   THEN Args({"Buy", "Sell"}, {AAPL}, {1, 2}, {1, 2})
                          \cup {<<"Buy", QU, 1, 1>>}
                   ELSE {<<"Buy", AAPL, 1, 2>>}],
   maxOrders |-> MaxOrders - 1, maxRejects |-> 0, maxMatch |-> MaxMatchCalls]

NextMatch ==
  \E t \in Threads :
    \/ AddOrderCall(t, WorkloadMatch) \/ CallMatch(t, WorkloadMatch)
    \/ AddSteps(t) \/ MatchSteps(t)

SpecMatch == Init /\ [][NextMatch]_vars

\* SpecSym: every thread adds and matches; three symbols in two buckets, the
\* threads other than thread 1 add one kind of order
WorkloadSym ==
  [adders |-> Threads, matchers |-> Threads,
   orders |-> [t \in Threads |->
                 IF t = 1
                   THEN Args({"Buy", "Sell"}, {AAPL, QU, GOOG}, {1}, {1, 2})
                   ELSE {<<"Buy", QU, 1, 2>>}],
   maxOrders |-> MaxOrders - 1, maxRejects |-> 0, maxMatch |-> MaxMatchCalls]

NextSym ==
  \E t \in Threads :
    \/ AddOrderCall(t, WorkloadSym) \/ CallMatch(t, WorkloadSym)
    \/ AddSteps(t) \/ MatchSteps(t)

SpecSym == Init /\ [][NextSym]_vars

\* SpecSeq: one thread, as add_test_orders runs (lines 335-352): it adds orders
\* one call after the other and calls matchOrder.  The orders are those of
\* add_test_orders, in their order, or are drawn from a set of small orders for
\* one symbol and one colliding symbol.  Prices are in whole currency units.
\* With one thread no CAS fails and no head is found exhausted, so the steps
\* of the fallback and of lines 242-248 are left out of NextSeq; C13_NoRetry
\* states that the thread never stands at one of them.
TestOrders ==
  << <<"Buy", TEST, 50, 150>>, <<"Sell", TEST, 50, 149>>,
     <<"Buy", AAPL, 100, 200>>, <<"Sell", AAPL, 50, 195>>,
     <<"Buy", GOOG, 200, 300>>, <<"Sell", GOOG, 50, 290>>,
     <<"Sell", GOOG, 50, 295>> >>

\* the orders constructed so far are the first n of add_test_orders
TestPrefix(n) ==
  /\ n <= Len(TestOrders)
  /\ nadd[1] = n
  /\ \A i \in 1..n :
       <<orders[i].order_type, orders[i].ticker, orders[i].quantity,
         orders[i].price>> = TestOrders[i]

Main == {1}

WorkloadTest ==
  [adders |-> Main, matchers |-> Main,
   orders |-> [t \in Threads |->
                 IF nadd[t] < Len(TestOrders) /\ TestPrefix(nadd[t])
                   THEN {TestOrders[nadd[t] + 1]} ELSE {}],
   maxOrders |-> Len(TestOrders), maxRejects |-> 0, maxMatch |-> 1]

WorkloadSeq ==
  [adders |-> Main, matchers |-> Main,
   orders |-> [t \in Threads |->
                 Args({"Buy"}, {AAPL}, {2, 3}, {2})
                   \cup Args({"Sell"}, {AAPL}, {1, 2}, {1, 2})
                   \cup {<<"Sell", AAPL, 1, 3>>, <<"Buy", QU, 1, 1>>}],
   maxOrders |-> MaxOrders, maxRejects |-> 0, maxMatch |-> 1]

NextSeq ==
  \E t \in Main :
    \/ AddOrderCall(t, WorkloadTest) \/ AddOrderCall(t, WorkloadSeq)
    \/ CallMatch(t, WorkloadSeq)
    \/ AddMainSteps(t) \/ MatchMainSteps(t)

SpecSeq == Init /\ [][NextSeq]_vars

(* ---- advance.py: LockFreeStockExchange and LockFreeOrderBook ---- *)
\* advance.py keeps, for each index, one pair of books and no ticker symbol:
\* tickers[index] is the pair, book[pair] its two heads, and nodeSym[pair]
\* records the ticker the pair was made for.  orders, qty, next and qlock are
\* the Order objects of advance.py lines 55-61.

\* line 145: hash(ticker) % 1024.  The hash of a str is salted per process
\* (PYTHONHASHSEED, random when unset): any assignment of indices to the
\* tickers can be the one of a process, two tickers sharing an index included.
\* hashes is that assignment; it is fixed when the process starts.
hash_index(ticker) == hashes[ticker]

\* line 168, and "TEST" of line 161
AdvSymbols == {AAPL, GOOG, TEST}
\* the values of line 145 the model draws from
AdvIndices == {i \in 0..(TICKER_SLOTS - 1) : i < NumIndices}

\* line 140: self.tickers = [None] * 1024, and the hash of the tickers in S
InitAdv(S) ==
  /\ hashes \in [S -> AdvIndices]
  /\ tickers = [b \in AdvIndices |-> None]
  /\ nodeSym = [n \in Slots |-> NoSymbol]
  /\ nodeNext = [n \in Slots |-> None]
  /\ book = [n \in Slots |-> [Buy |-> None, Sell |-> None]]
  /\ orders = [o \in Slots |-> NoOrder]
  /\ qty = [o \in Slots |-> 0]
  /\ next = [o \in Slots |-> None]
  /\ qlock = [o \in Slots |-> None]
  /\ outcome = [o \in Slots |-> "none"]
  /\ pc = [t \in Threads |-> "idle"]
  /\ loc = [t \in Threads |-> Idle]
  /\ nadd = [t \in Threads |-> 0]
  /\ nmatch = 0
  /\ nrej = 0
  /\ alone = [t \in Threads |-> FALSE]
  /\ matched = [s \in AllSymbols |-> [count |-> 0, quantity |-> 0]]

\* lines 172-177: one pass of trade_worker begins: the order's data are
\* drawn and get_or_create_books(ticker) is called (line 145: index).  The
\* pass goes on with add_order (lines 179-182) and match_orders (line 184) on
\* the pair of books it is given here.  Lines 200-201: the threads are
\* started after add_test_orders has returned, never while it runs.
trade_worker(t, W) ==
  /\ pc[t] = "idle"
  /\ t \in W.adders
  /\ \A u \in Threads : ~(loc[u].op = "test" /\ pc[u] # "idle")
  /\ Total(nadd, Threads) < W.maxOrders
  /\ \E a \in W.orders[t] :
       Step(t, "v_g1", [Idle EXCEPT !.op = "add", !.order_type = a[1],
                                    !.ticker_symbol = a[2], !.quantity = a[3],
                                    !.price = a[4],
                                    !.index = hash_index(a[2]),
                                    !.new_order = (t - 1) * MaxOrders + nadd[t] + 1])
  /\ nadd' = [nadd EXCEPT ![t] = @ + 1]
  /\ UNCHANGED <<shared, outcome, nmatch, nrej, alone, matched, hashes>>

\* lines 200-201 and 159-161: main calls add_test_orders before
\* simulate_trading starts a thread; it calls get_or_create_books("TEST") and
\* then, on the pair it is given, add_order for each of its two orders (lines
\* 162-163) and match_orders (line 164).
AdvTestOrders == << <<"Buy", TEST, 50, 150>>, <<"Sell", TEST, 50, 149>> >>

add_test_orders(t) ==
  /\ pc[t] = "idle"
  /\ t = 1
  /\ Total(nadd, Threads) = 0
  /\ Step(t, "v_g1", [Idle EXCEPT !.op = "test",
                                  !.order_type = AdvTestOrders[1][1],
                                  !.ticker_symbol = AdvTestOrders[1][2],
                                  !.quantity = AdvTestOrders[1][3],
                                  !.price = AdvTestOrders[1][4],
                                  !.index = hash_index(TEST),
                                  !.new_order = (t - 1) * MaxOrders + 1,
                                  !.todo = Tail(AdvTestOrders)])
  /\ nadd' = [nadd EXCEPT ![t] = @ + Len(AdvTestOrders)]
  /\ UNCHANGED <<shared, outcome, nmatch, nrej, alone, matched, hashes>>

\* line 149: the pair of books a call makes is a new object
NewBooks(t) ==
  (t - 1) * MaxOrders + 1
    + Cardinality({n \in ((t - 1) * MaxOrders + 1)..(t * MaxOrders) :
                     nodeSym[n] # NoSymbol})

\* lines 148-149: if self.tickers[index] is None: new_books = (book, book)
AdvGocCheck(t) ==
  /\ pc[t] = "v_g1"
  /\ IF tickers[loc[t].index] = None
       THEN /\ nodeSym' = [nodeSym EXCEPT ![NewBooks(t)] = loc[t].ticker_symbol]
            /\ Step(t, "v_g2", [loc[t] EXCEPT !.new_books = NewBooks(t)])
       ELSE /\ Step(t, "v_g4", loc[t])
            /\ UNCHANGED nodeSym
  /\ UNCHANGED <<tickers, nodeNext, book, orders, qty, next, qlock,
                 outcome, nadd, nmatch, nrej, alone, matched, hashes>>

\* lines 152-153: current = self.tickers[index]; if current is None
AdvGocRecheck(t) ==
  /\ pc[t] = "v_g2"
  /\ Step(t, IF tickers[loc[t].index] = None THEN "v_g3" ELSE "v_g4", loc[t])
  /\ UNCHANGED <<shared, outcome, nadd, nmatch, nrej, alone, matched, hashes>>

\* line 155: self.tickers[index] = new_books
AdvGocStore(t) ==
  /\ pc[t] = "v_g3"
  /\ tickers' = [tickers EXCEPT ![loc[t].index] = loc[t].new_books]
  /\ Step(t, "v_g4", loc[t])
  /\ UNCHANGED <<nodeSym, nodeNext, book, orders, qty, next, qlock,
                 outcome, nadd, nmatch, nrej, alone, matched, hashes>>

\* line 157: return self.tickers[index]; line 177 binds the pair to
\* buy_book, sell_book, and line 180 or 182 constructs the Order (lines 55-61)
AdvGocReturn(t) ==
  /\ pc[t] = "v_g4"
  /\ LET l == [loc[t] EXCEPT !.books = tickers[loc[t].index]] IN
       /\ orders' = [orders EXCEPT ![l.new_order] =
                       [order_type |-> l.order_type, ticker |-> l.ticker_symbol,
                        price |-> l.price, quantity |-> l.quantity,
                        node |-> l.books]]
       /\ qty' = [qty EXCEPT ![l.new_order] = l.quantity]
       /\ outcome' = [outcome EXCEPT ![l.new_order] = "inflight"]
       /\ Step(t, "v_a0", l)
  /\ UNCHANGED <<tickers, nodeSym, nodeNext, book, next, qlock,
                 nadd, nmatch, nrej, alone, matched, hashes>>

AdvGocSteps(t) ==
  AdvGocCheck(t) \/ AdvGocRecheck(t) \/ AdvGocStore(t) \/ AdvGocReturn(t)

(* ---- advance.py: LockFreeOrderBook.add_order, lines 67-102 ---- *)
\* lines 77 and 89: the new order's price is strictly better than o's
AdvOutranks(l, o) ==
  \/ is_buy(l) /\ l.price > orders[o].price
  \/ ~is_buy(l) /\ l.price < orders[o].price

\* the book add_order was called on (lines 180 and 182), and its head
AdvSide(l) == IF is_buy(l) THEN "Buy" ELSE "Sell"
AdvHead(l) == book[l.books][AdvSide(l)]

\* lines 74-77 and 84: current_head = self.head.get(); which branch is taken
AdvAddReadHead(t) ==
  /\ pc[t] = "v_a0"
  /\ LET l == [loc[t] EXCEPT !.current_head = AdvHead(loc[t]),
                             !.current = None, !.next_node = None]
     IN  IF l.current_head = None \/ AdvOutranks(l, l.current_head)
           THEN Step(t, "v_ah", l)
           ELSE Step(t, "v_aw", [l EXCEPT !.current = l.current_head])
  /\ UNCHANGED <<shared, outcome, nadd, nmatch, nrej, alone, matched, hashes>>

\* line 78: new_order.next.set(current_head)
AdvAddHeadLink(t) ==
  /\ pc[t] = "v_ah"
  /\ next' = [next EXCEPT ![loc[t].new_order] = loc[t].current_head]
  /\ Step(t, "v_ahcas", loc[t])
  /\ UNCHANGED <<tickers, nodeSym, nodeNext, book, orders, qty, qlock,
                 outcome, nadd, nmatch, nrej, alone, matched, hashes>>

\* lines 79-80: self.head.compare_and_set(current_head, new_order); break to
\* line 102, or the loop of line 73 again
AdvAddHeadCas(t) ==
  /\ pc[t] = "v_ahcas"
  /\ LET l == loc[t] IN
       IF AdvHead(l) = l.current_head
         THEN /\ book' = [book EXCEPT ![l.books][AdvSide(l)] = l.new_order]
              /\ outcome' = [outcome EXCEPT ![l.new_order] = "ok"]
              /\ Step(t, "v_log", l)
         ELSE /\ Step(t, "v_a0", l)
              /\ UNCHANGED <<book, outcome>>
  /\ UNCHANGED <<tickers, nodeSym, nodeNext, orders, qty, next, qlock,
                 nadd, nmatch, nrej, alone, matched, hashes>>

\* lines 86-96: next_node = current.next.get(); the place is found, or
\* current = next_node
AdvAddWalk(t) ==
  /\ pc[t] = "v_aw"
  /\ LET l == [loc[t] EXCEPT !.next_node = next[loc[t].current]] IN
       IF l.next_node = None \/ AdvOutranks(l, l.next_node)
         THEN Step(t, "v_am", l)
         ELSE Step(t, "v_aw", [l EXCEPT !.current = l.next_node])
  /\ UNCHANGED <<shared, outcome, nadd, nmatch, nrej, alone, matched, hashes>>

\* line 90: new_order.next.set(next_node)
AdvAddMidLink(t) ==
  /\ pc[t] = "v_am"
  /\ next' = [next EXCEPT ![loc[t].new_order] = loc[t].next_node]
  /\ Step(t, "v_amcas", loc[t])
  /\ UNCHANGED <<tickers, nodeSym, nodeNext, book, orders, qty, qlock,
                 outcome, nadd, nmatch, nrej, alone, matched, hashes>>

\* lines 91-94: current.next.compare_and_set(next_node, new_order); both
\* outcomes leave the inner loop
AdvAddMidCas(t) ==
  /\ pc[t] = "v_amcas"
  /\ LET l == loc[t] IN
       IF next[l.current] = l.next_node
         THEN /\ next' = [next EXCEPT ![l.current] = l.new_order]
              /\ outcome' = [outcome EXCEPT ![l.new_order] = "ok"]
         ELSE UNCHANGED <<next, outcome>>
  /\ Step(t, "v_achk", loc[t])
  /\ UNCHANGED <<tickers, nodeSym, nodeNext, book, orders, qty, qlock,
                 nadd, nmatch, nrej, alone, matched, hashes>>

\* line 99: current.next.get() == new_order
AdvInserted(l) == next[l.current] = l.new_order

\* lines 99-100: break to line 102, or the loop of line 73 again
AdvAddCheck(t) ==
  /\ pc[t] = "v_achk"
  /\ IF AdvInserted(loc[t])
       THEN Step(t, "v_log", loc[t])
       ELSE Step(t, "v_a0", loc[t])
  /\ UNCHANGED <<shared, outcome, nadd, nmatch, nrej, alone, matched, hashes>>

\* line 102: the message reads new_order.quantity.value, which takes the
\* quantity's lock and waits while a matcher holds it (line 123); add_order
\* returns.  The caller goes on on the pair of books it holds: with the next
\* order of add_test_orders (line 163), or with match_orders (lines 164 and
\* 184; line 106: retries = 0).
AdvAddLog(t) ==
  /\ pc[t] = "v_log"
  /\ CanRead(t, loc[t].new_order)
  /\ LET l == loc[t] IN
       IF l.todo # <<>>
         THEN LET a == Head(l.todo)
                  o == l.new_order + 1
              IN  /\ orders' = [orders EXCEPT ![o] =
                                  [order_type |-> a[1], ticker |-> a[2],
                                   price |-> a[4], quantity |-> a[3],
                                   node |-> l.books]]
                  /\ qty' = [qty EXCEPT ![o] = a[3]]
                  /\ outcome' = [outcome EXCEPT ![o] = "inflight"]
                  /\ Step(t, "v_a0", [l EXCEPT !.order_type = a[1],
                                               !.ticker_symbol = a[2],
                                               !.quantity = a[3], !.price = a[4],
                                               !.new_order = o,
                                               !.todo = Tail(l.todo),
                                               !.current_head = None,
                                               !.current = None,
                                               !.next_node = None])
         ELSE /\ Step(t, "v_m0", [l EXCEPT !.new_order = None, !.retries = 0,
                                           !.current_head = None,
                                           !.current = None,
                                           !.next_node = None])
              /\ UNCHANGED <<orders, qty, outcome>>
  /\ UNCHANGED <<tickers, nodeSym, nodeNext, book, next, qlock,
                 nadd, nmatch, nrej, alone, matched, hashes>>

AdvAddSteps(t) ==
  \/ AdvAddReadHead(t) \/ AdvAddHeadLink(t) \/ AdvAddHeadCas(t)
  \/ AdvAddWalk(t) \/ AdvAddMidLink(t) \/ AdvAddMidCas(t) \/ AdvAddCheck(t)
  \/ AdvAddLog(t)

(* ---- advance.py: LockFreeOrderBook.match_orders, lines 104-136 ---- *)
\* lines 107-108: while retries < max_retries: buy_head = self.head.get()
AdvMatchReadBuy(t) ==
  /\ pc[t] = "v_m0"
  /\ LET l == loc[t] IN
       IF l.retries < max_retries
         THEN Step(t, "v_mrs", [l EXCEPT !.buy_head = book[l.books].Buy,
                                         !.sell_head = None, !.expected = None,
                                         !.buy_qty_before = 0,
                                         !.sell_qty_before = 0,
                                         !.matched_quantity = 0])
         ELSE Return(t, l, None)
  /\ UNCHANGED <<shared, outcome, nadd, nmatch, nrej, alone, matched, hashes>>

\* lines 109-115: sell_head = other_book.head.get(); the two breaks
AdvMatchReadSell(t) ==
  /\ pc[t] = "v_mrs"
  /\ LET l == [loc[t] EXCEPT !.sell_head = book[loc[t].books].Sell] IN
       IF l.buy_head = None \/ l.sell_head = None
         THEN Return(t, l, None)
       ELSE IF orders[l.buy_head].price < orders[l.sell_head].price
         THEN Return(t, l, None)
       ELSE Step(t, "v_mqb", l)
  /\ UNCHANGED <<shared, outcome, nadd, nmatch, nrej, alone, matched, hashes>>

\* line 117, first argument of min: buy_head.quantity.value
AdvMatchSnapBuy(t) ==
  /\ pc[t] = "v_mqb"
  /\ CanRead(t, loc[t].buy_head)
  /\ Step(t, "v_mqs", [loc[t] EXCEPT !.buy_qty_before = qty[loc[t].buy_head]])
  /\ UNCHANGED <<shared, outcome, nadd, nmatch, nrej, alone, matched, hashes>>

\* lines 117-120: sell_head.quantity.value; matched_quantity = min(...);
\* if matched_quantity <= 0: break
AdvMatchSnapSell(t) ==
  /\ pc[t] = "v_mqs"
  /\ CanRead(t, loc[t].sell_head)
  /\ LET l == [loc[t] EXCEPT !.sell_qty_before = qty[loc[t].sell_head]]
         m == MatchedQuantity(l.buy_qty_before, l.sell_qty_before)
     IN  IF m <= 0
           THEN Return(t, l, None)
           ELSE Step(t, "v_mlb", [l EXCEPT !.matched_quantity = m])
  /\ UNCHANGED <<shared, outcome, nadd, nmatch, nrej, alone, matched, hashes>>

\* line 123, first item: buy_head.quantity.get_lock() is acquired
AdvMatchLockBuy(t) ==
  /\ pc[t] = "v_mlb"
  /\ qlock[loc[t].buy_head] = None
  /\ qlock' = [qlock EXCEPT ![loc[t].buy_head] = t]
  /\ Step(t, "v_mls", loc[t])
  /\ UNCHANGED <<tickers, nodeSym, nodeNext, book, orders, qty, next,
                 outcome, nadd, nmatch, nrej, alone, matched, hashes>>

\* line 123, second item, to line 125: sell_head's lock is acquired, both
\* quantities are decremented by the amount computed at line 117, both locks
\* are released
AdvMatchUpdate(t) ==
  /\ pc[t] = "v_mls"
  /\ qlock[loc[t].sell_head] = None
  /\ qlock' = [qlock EXCEPT ![loc[t].buy_head] = None]
  /\ LET l == loc[t] IN
       qty' = [qty EXCEPT ![l.buy_head] = @ - l.matched_quantity,
                          ![l.sell_head] = @ - l.matched_quantity]
  /\ Step(t, "v_mzb", loc[t])
  /\ UNCHANGED <<tickers, nodeSym, nodeNext, book, orders, next,
                 outcome, nadd, nmatch, nrej, alone, matched, hashes>>

\* line 130: if buy_head.quantity.value == 0
AdvMatchZeroBuy(t) ==
  /\ pc[t] = "v_mzb"
  /\ CanRead(t, loc[t].buy_head)
  /\ Step(t, IF qty[loc[t].buy_head] = 0 THEN "v_mzbn" ELSE "v_mzs", loc[t])
  /\ UNCHANGED <<shared, outcome, nadd, nmatch, nrej, alone, matched, hashes>>

\* line 131, the argument: buy_head.next.get()
AdvMatchDropBuyRead(t) ==
  /\ pc[t] = "v_mzbn"
  /\ Step(t, "v_mzbcas", [loc[t] EXCEPT !.expected = next[loc[t].buy_head]])
  /\ UNCHANGED <<shared, outcome, nadd, nmatch, nrej, alone, matched, hashes>>

\* line 131: self.head.compare_and_set(buy_head, <next>)
AdvMatchDropBuyCas(t) ==
  /\ pc[t] = "v_mzbcas"
  /\ LET l == loc[t] IN
       /\ book' = IF book[l.books].Buy = l.buy_head
                    THEN [book EXCEPT ![l.books].Buy = l.expected]
                    ELSE book
       /\ Step(t, "v_mzs", [l EXCEPT !.expected = None])
  /\ UNCHANGED <<tickers, nodeSym, nodeNext, orders, qty, next, qlock,
                 outcome, nadd, nmatch, nrej, alone, matched, hashes>>

\* line 133: if sell_head.quantity.value == 0; else line 136: retries += 1
AdvMatchZeroSell(t) ==
  /\ pc[t] = "v_mzs"
  /\ CanRead(t, loc[t].sell_head)
  /\ IF qty[loc[t].sell_head] = 0
       THEN Step(t, "v_mzsn", loc[t])
       ELSE Step(t, "v_m0", [loc[t] EXCEPT !.retries = @ + 1])
  /\ UNCHANGED <<shared, outcome, nadd, nmatch, nrej, alone, matched, hashes>>

\* line 134, the argument: sell_head.next.get()
AdvMatchDropSellRead(t) ==
  /\ pc[t] = "v_mzsn"
  /\ Step(t, "v_mzscas", [loc[t] EXCEPT !.expected = next[loc[t].sell_head]])
  /\ UNCHANGED <<shared, outcome, nadd, nmatch, nrej, alone, matched, hashes>>

\* line 134: other_book.head.compare_and_set(sell_head, <next>); line 136
AdvMatchDropSellCas(t) ==
  /\ pc[t] = "v_mzscas"
  /\ LET l == loc[t] IN
       /\ book' = IF book[l.books].Sell = l.sell_head
                    THEN [book EXCEPT ![l.books].Sell = l.expected]
                    ELSE book
       /\ Step(t, "v_m0", [l EXCEPT !.retries = @ + 1, !.expected = None])
  /\ UNCHANGED <<tickers, nodeSym, nodeNext, orders, qty, next, qlock,
                 outcome, nadd, nmatch, nrej, alone, matched, hashes>>

\* lines 107-115, which every call of match_orders executes
AdvMatchHeads(t) == AdvMatchReadBuy(t) \/ AdvMatchReadSell(t)

AdvMatchSteps(t) ==
  \/ AdvMatchHeads(t)
  \/ AdvMatchSnapBuy(t) \/ AdvMatchSnapSell(t)
  \/ AdvMatchLockBuy(t) \/ AdvMatchUpdate(t)
  \/ AdvMatchZeroBuy(t) \/ AdvMatchDropBuyRead(t) \/ AdvMatchDropBuyCas(t)
  \/ AdvMatchZeroSell(t) \/ AdvMatchDropSellRead(t) \/ AdvMatchDropSellCas(t)

(* ---- advance.py: the specifications ---- *)
\* SpecAdvAdd: the threads' passes add Buy orders of three prices to one
\* book; match_orders finds the Sell book empty (line 111)
WorkloadAdvAdd ==
  [adders |-> Threads, matchers |-> {},
   orders |-> [t \in Threads |-> Args({"Buy"}, {AAPL}, {1}, {1, 2, 3})],
   maxOrders |-> MaxOrders, maxRejects |-> 0, maxMatch |-> 0]

NextAdvAdd ==
  \E t \in Threads :
    \/ trade_worker(t, WorkloadAdvAdd)
    \/ AdvGocSteps(t) \/ AdvAddSteps(t) \/ AdvMatchHeads(t)

SpecAdvAdd == InitAdv({AAPL}) /\ [][NextAdvAdd]_vars

\* SpecAdvMatch: the threads' passes add to and match the two books of one
\* ticker
WorkloadAdvMatch ==
  [adders |-> Threads, matchers |-> Threads,
   orders |-> [t \in Threads |->
                 IF t = 1 THEN Args({"Buy", "Sell"}, {AAPL}, {1, 2}, {1})
                          ELSE {<<"Buy", AAPL, 1, 1>>}],
   maxOrders |-> MaxOrders - 1, maxRejects |-> 0, maxMatch |-> 0]

NextAdvMatch ==
  \E t \in Threads :
    \/ trade_worker(t, WorkloadAdvMatch)
    \/ AdvGocSteps(t) \/ AdvAddSteps(t) \/ AdvMatchSteps(t)

SpecAdvMatch == InitAdv({AAPL}) /\ [][NextAdvMatch]_vars

\* SpecAdvSym: add_test_orders, or not, and then the threads' passes on two
\* tickers; the three tickers' indices are any the hash can give them
WorkloadAdvSym ==
  [adders |-> Threads, matchers |-> Threads,
   orders |-> [t \in Threads |->
                 IF t = 1 THEN {<<"Buy", AAPL, 1, 1>>}
                          ELSE {<<"Sell", GOOG, 1, 1>>}],
   maxOrders |-> MaxOrders, maxRejects |-> 0, maxMatch |-> 0]

NextAdvSym ==
  \E t \in Threads :
    \/ add_test_orders(t) \/ trade_worker(t, WorkloadAdvSym)
    \/ AdvGocSteps(t) \/ AdvAddSteps(t) \/ AdvMatchSteps(t)

SpecAdvSym == InitAdv(AdvSymbols) /\ [][NextAdvSym]_vars

(* ---- what the claims speak about ---- *)
Created(o) == outcome[o] # "none"
\* addOrder returned the order's handle
Returned(o) == outcome[o] \in {"ok", "forced"}
Constructed(n) == nodeSym[n] # NoSymbol

\* the first n orders met by following next from o
RECURSIVE WalkFrom(_, _)
WalkFrom(o, n) ==
  IF o = None \/ n = 0 THEN <<>> ELSE <<o>> \o WalkFrom(next[o], n - 1)

NumSlots == Cardinality(Slots)
\* the orders reachable from a book head, as far as NumSlots + 1 of them
Chain(n, side) == WalkFrom(book[n][side], NumSlots + 1)
InChain(o, n, side) == \E k \in 1..Len(Chain(n, side)) : Chain(n, side)[k] = o
\* the book an order was added to
InItsBook(o) == InChain(o, orders[o].node, orders[o].order_type)

\* the TickerNodes reachable from tickers[index], as far as NumSlots + 1
RECURSIVE NodesFrom(_, _)
NodesFrom(n, k) ==
  IF n = None \/ k = 0 THEN {} ELSE {n} \cup NodesFrom(nodeNext[n], k - 1)
Registered == UNION {NodesFrom(tickers[b], NumSlots + 1) : b \in Buckets}

\* C1: in every reachable state every order's remaining quantity lies between
\* 0 and the quantity the order was given, and no step increases it.
C1_QuantityBounds ==
  \A o \in Slots : Created(o) => 0 <= qty[o] /\ qty[o] <= orders[o].quantity
C1_QuantityStep ==
  \A o \in Slots : Created(o) => qty'[o] <= qty[o]
C1_Quantity == []C1_QuantityBounds /\ [][C1_QuantityStep]_vars
\* an order is partly filled while another one is exhausted
C1_Witness ==
  \E o, p \in Slots :
    /\ Created(o) /\ 0 < qty[o] /\ qty[o] < orders[o].quantity
    /\ Created(p) /\ qty[p] = 0

\* C2: an order whose handle addOrder returned is reachable from the head of
\* its book for as long as its remaining quantity is positive.
C2_NeverDropped ==
  \A o \in Slots : Returned(o) /\ qty[o] > 0 => InItsBook(o)

\* C3: when every addOrder call has returned and the fallback path never fired,
\* the prices reachable from a buy head are non-increasing and those reachable
\* from a sell head are non-decreasing.
Sorted(n, side) ==
  \A k \in 1..(Len(Chain(n, side)) - 1) :
    IF side = "Buy"
      THEN orders[Chain(n, side)[k]].price >= orders[Chain(n, side)[k + 1]].price
      ELSE orders[Chain(n, side)[k]].price <= orders[Chain(n, side)[k + 1]].price
C3_SortedWhenQuiet ==
  (/\ \A t \in Threads : pc[t] = "idle"
   /\ \A o \in Slots : outcome[o] \notin {"forced", "failed"})
  => \A n \in Slots, side \in Sides : Constructed(n) => Sorted(n, side)

\* C4: in every reachable state the next-links from any book head end at None
\* and pass no order twice.
C4_Acyclic ==
  \A n \in Slots, side \in Sides :
    /\ Len(Chain(n, side)) <= NumSlots
    /\ \A j, k \in 1..Len(Chain(n, side)) :
         j # k => Chain(n, side)[j] # Chain(n, side)[k]
\* a book holds two orders when a match has exhausted an order
C4_Witness ==
  /\ \E n \in Slots, side \in Sides : Len(Chain(n, side)) >= 2
  /\ \E o \in Slots : Returned(o) /\ qty[o] = 0

\* C5: a step that applies a match takes the same amount from buy_head and from
\* sell_head, and the amount is the smaller of the two quantities as they are
\* when the step is taken.
C5_Applied(t) == pc[t] = "m_locks" /\ pc'[t] = "m_zb"
C5_MatchStep ==
  \A t \in Threads :
    C5_Applied(t) =>
      LET b == loc[t].buy_head
          s == loc[t].sell_head
          m == IF qty[b] <= qty[s] THEN qty[b] ELSE qty[s]
      IN  /\ qty[b] - qty'[b] = m
          /\ qty[s] - qty'[s] = m
          /\ \A o \in Slots \ {b, s} : qty'[o] = qty[o]
C5_MatchAmount == [][C5_MatchStep]_vars
\* a match was applied to heads of different quantities
C5_Witness ==
  \E t \in Threads :
    /\ pc[t] = "m_zb"
    /\ loc[t].buy_qty_before # loc[t].sell_qty_before
    /\ qty[loc[t].buy_head] + qty[loc[t].sell_head] > 0

\* C6: when matchOrder has run with no concurrent caller and returned without
\* reaching MAX_MATCHING_ITERATIONS, every registered TickerNode has an empty
\* buy book, or an empty sell book, or a buy head priced strictly below its
\* sell head.
C6_Quiet(t) ==
  /\ pc[t] = "idle" /\ loc[t].op = "match"
  /\ alone[t] /\ ~loc[t].reached_max
C6_NoCrossLeft ==
  \A t \in Threads :
    C6_Quiet(t) =>
      \A n \in Registered :
        \/ book[n].Buy = None
        \/ book[n].Sell = None
        \/ orders[book[n].Buy].price < orders[book[n].Sell].price
\* a lone matchOrder matched, and left an order behind, with two symbols
\* registered
C6_Witness ==
  \E t \in Threads :
    /\ C6_Quiet(t)
    /\ loc[t].result >= 1
    /\ Cardinality(Registered) >= 2
    /\ \E n \in Registered : book[n].Buy # None \/ book[n].Sell # None

\* C7: every get_or_create_books call for one symbol returns the same
\* TickerNode, at most one TickerNode per symbol is ever constructed, and a
\* TickerNode once installed stays reachable from its bucket.
C7_OneEntryPerSymbol ==
  /\ \A o, p \in Slots :
       Created(o) /\ Created(p) /\ orders[o].ticker = orders[p].ticker
         => orders[o].node = orders[p].node
  /\ \A n, m \in Slots :
       Constructed(n) /\ Constructed(m) /\ nodeSym[n] = nodeSym[m] => n = m
  /\ \A n \in Slots : Constructed(n) => n \in Registered

\* C8: the books returned for two distinct symbols are disjoint and both stay
\* retrievable from the registry, also when the symbols share a bucket; a step
\* of an addOrder call for a symbol, or of matchOrder at a symbol's TickerNode,
\* leaves the heads, next-links and quantities of every other symbol as they
\* were; and the two orders of a match have the same symbol.
C8_Retrievable ==
  /\ \A o, p \in Slots :
       Created(o) /\ Created(p) /\ orders[o].ticker # orders[p].ticker
         => orders[o].node # orders[p].node
  /\ \A o \in Slots : Created(o) => orders[o].node \in Registered
\* the symbol thread t is working on, NoSymbol when there is none
C8_Symbol(t) ==
  IF loc[t].op = "add" /\ pc[t] # "idle" THEN loc[t].ticker_symbol
  ELSE IF loc[t].op = "match" /\ loc[t].current_ticker_node # None
    THEN nodeSym[loc[t].current_ticker_node]
  ELSE NoSymbol
C8_FrameStep ==
  \A t \in Threads :
    (pc'[t] # pc[t] \/ loc'[t] # loc[t]) /\ C8_Symbol(t) # NoSymbol =>
      /\ \A o \in Slots :
           Created(o) /\ orders[o].ticker # C8_Symbol(t)
             => qty'[o] = qty[o] /\ next'[o] = next[o]
      /\ \A n \in Slots :
           Constructed(n) /\ nodeSym[n] # C8_Symbol(t) => book'[n] = book[n]
      /\ pc[t] = "m_locks" =>
           orders[loc[t].buy_head].ticker = orders[loc[t].sell_head].ticker
C8_Frame == [][C8_FrameStep]_vars
C8_Isolation == []C8_Retrievable /\ C8_Frame

\* C9: an addOrder call with quantity <= 0 or price <= 0 returns None in the
\* step of the call and changes nothing of the registry, the books, the
\* next-links and the quantities; no Order is ever constructed from such
\* arguments.
C9_NoInvalidOrder ==
  \A o \in Slots : Created(o) => orders[o].quantity > 0 /\ orders[o].price > 0
C9_RejectStep ==
  \A t \in Threads :
    (/\ pc[t] = "idle"
     /\ loc'[t] # loc[t]
     /\ loc'[t].op = "add"
     /\ (loc'[t].quantity <= 0 \/ loc'[t].price <= 0))
    => (/\ pc'[t] = "idle"
        /\ loc'[t].result = None
        /\ UNCHANGED <<shared, outcome, nadd, hashes>>)
C9_Rejected == []C9_NoInvalidOrder /\ [][C9_RejectStep]_vars
\* a call with invalid arguments has returned None while orders exist
C9_Witness ==
  \E t \in Threads :
    /\ pc[t] = "idle" /\ loc[t].op = "add" /\ loc[t].result = None
    /\ (loc[t].quantity <= 0 \/ loc[t].price <= 0)
    /\ \E o \in Slots : Returned(o)

\* C10: addOrder returns None for a validated order only from the last
\* fallback try, after MAX_RETRIES passes of the main loop, and linking
\* nothing; an order it returned None for is no book's head and no order's
\* next; and a step of addOrder that links the order returns its handle.
C10_Unlinked ==
  \A o \in Slots :
    outcome[o] = "failed" =>
      /\ \A n \in Slots, side \in Sides : book[n][side] # o
      /\ \A p \in Slots : next[p] # o
C10_AddStep ==
  \A t \in Threads :
    (/\ pc[t] # "idle" /\ loc[t].op = "add"
     /\ (pc'[t] # pc[t] \/ loc'[t] # loc[t]))
    => /\ (pc'[t] = "idle" /\ loc'[t].result = None) =>
            /\ pc[t] = "a_fcas"
            /\ loc[t].retries >= MAX_RETRIES
            /\ loc[t].final_try + 1 >= FINAL_TRIES
            /\ outcome'[loc[t].new_order] = "failed"
            /\ UNCHANGED <<book, next>>
       /\ (\/ book' # book
           \/ \E o \in Slots \ {loc[t].new_order} : next'[o] # next[o]) =>
            /\ pc'[t] = "idle"
            /\ loc'[t].result = loc[t].new_order
            /\ outcome'[loc[t].new_order] \in {"ok", "forced"}
C10_FailureOnlyWhenExhausted == []C10_Unlinked /\ [][C10_AddStep]_vars
\* an addOrder call has failed after the fallback and another was forced in
C10_Witness ==
  /\ \E o \in Slots : outcome[o] = "failed"
  /\ \E o \in Slots : outcome[o] \in {"ok", "forced"}

\* C11: under a fair scheduler every addOrder and matchOrder call that has
\* begun returns in the end.
C11_EveryCallReturns ==
  \A t \in Threads : (pc[t] # "idle") ~> (pc[t] = "idle")
\* every call has returned, a matchOrder call with a match to report and an
\* addOrder call from the fallback
C11_Witness ==
  /\ \A t \in Threads : pc[t] = "idle"
  /\ nmatch = MaxMatchCalls
  /\ \E t \in Threads : loc[t].op = "match" /\ loc[t].result >= 1
  /\ \E o \in Slots : outcome[o] \in {"forced", "failed"}

\* C12: a matchOrder call made, with no concurrent caller, when no registered
\* symbol has crossable heads returns 0 and changes no book head, next-link,
\* quantity or registry entry.  Stated step by step: a step of a lone
\* matchOrder call that has counted no match, taken where no symbol has
\* crossable heads, changes nothing shared and counts no match; so the state
\* the call began in is the state it returns in, and a repeated call finds it.
NoCrossAnywhere ==
  \A n \in Registered :
    \/ book[n].Buy = None
    \/ book[n].Sell = None
    \/ orders[book[n].Buy].price < orders[book[n].Sell].price
C12_Step ==
  \A t \in Threads :
    (/\ loc[t].op = "match" /\ pc[t] # "idle"
     /\ alone[t] /\ loc[t].matches_count = 0
     /\ NoCrossAnywhere
     /\ (pc'[t] # pc[t] \/ loc'[t] # loc[t]))
    => /\ UNCHANGED <<shared, matched>>
       /\ pc'[t] = "idle" => loc'[t].result = 0
       /\ pc'[t] # "idle" => loc'[t].matches_count = 0
C12_NothingToMatch == [][C12_Step]_vars
\* matchOrder was called twice and the last call, alone, returned 0 leaving a
\* symbol with orders in both books
C12_Witness ==
  \E t \in Threads :
    /\ pc[t] = "idle" /\ loc[t].op = "match" /\ alone[t]
    /\ loc[t].result = 0
    /\ nmatch >= 2
    /\ NoCrossAnywhere
    /\ \E n \in Registered : book[n].Buy # None /\ book[n].Sell # None

\* C13: in a run of one thread, a symbol that was given one buy order of
\* quantity Q at price P and k sell orders priced at most P with total quantity
\* S <= Q has, when the single matchOrder call returns, k matches counted
\* with S matched in total, an empty sell book, and its buy order at the head
\* with Q - S left (S < Q) or removed (S = Q); each match is with the cheapest
\* sell order left and takes that order's whole quantity; and matchOrder
\* returns 4 for the orders of add_test_orders.  C13_AsClaimed states it for
\* every k, C13_SingleBuy for k <= MAX_MATCHING_ITERATIONS.
OrdersOf(sym, side) ==
  {o \in Slots : Created(o) /\ orders[o].ticker = sym /\ orders[o].order_type = side}
RECURSIVE SumQuantity(_)
SumQuantity(S) ==
  IF S = {} THEN 0
  ELSE LET o == CHOOSE x \in S : TRUE IN orders[o].quantity + SumQuantity(S \ {o})
\* one buy order, and sell orders that all cross it and do not exceed it
C13_Case(sym) ==
  /\ Cardinality(OrdersOf(sym, "Buy")) = 1
  /\ \A b \in OrdersOf(sym, "Buy") :
       /\ \A s \in OrdersOf(sym, "Sell") : orders[s].price <= orders[b].price
       /\ SumQuantity(OrdersOf(sym, "Sell")) <= orders[b].quantity
C13_Outcome(sym) ==
  LET sells == OrdersOf(sym, "Sell")
      S == SumQuantity(sells)
  IN  \A b \in OrdersOf(sym, "Buy") :
        /\ matched[sym].count = Cardinality(sells)
        /\ matched[sym].quantity = S
        /\ book[orders[b].node].Sell = None
        /\ \A s \in sells : qty[s] = 0
        /\ qty[b] = orders[b].quantity - S
        /\ book[orders[b].node].Buy = IF S < orders[b].quantity THEN b ELSE None
\* the single matchOrder call has returned and nothing was called after it
C13_Done == pc[1] = "idle" /\ loc[1].op = "match" /\ nmatch = 1
C13_NoRetry ==
  pc[1] \notin {"a_f1", "a_f2", "a_fcas", "m_bn", "m_bcas", "m_sn", "m_scas"}
C13_Returns4 ==
  C13_Done /\ TestPrefix(Len(TestOrders)) => loc[1].result = 4
C13_InOrderStep ==
  (pc[1] = "m_locks" /\ pc'[1] = "m_zb" /\ C13_Case(MatchSymbol(loc[1]))) =>
    LET s == loc[1].sell_head IN
      /\ qty[s] - qty'[s] = orders[s].quantity
      /\ \A r \in OrdersOf(MatchSymbol(loc[1]), "Sell") :
           qty[r] > 0 => orders[s].price <= orders[r].price
C13_AllSymbols ==
  C13_Done => \A sym \in AllSymbols : C13_Case(sym) => C13_Outcome(sym)
C13_AsClaimed ==
  /\ [](C13_NoRetry /\ C13_Returns4 /\ C13_AllSymbols)
  /\ [][C13_InOrderStep]_vars
C13_WithinCeiling ==
  C13_Done =>
    \A sym \in AllSymbols :
      /\ C13_Case(sym)
      /\ Cardinality(OrdersOf(sym, "Sell")) <= MAX_MATCHING_ITERATIONS
      => C13_Outcome(sym)
C13_SingleBuy ==
  /\ [](C13_NoRetry /\ C13_Returns4 /\ C13_WithinCeiling)
  /\ [][C13_InOrderStep]_vars
\* matchOrder has returned 4 for the orders of add_test_orders
C13_Witness ==
  /\ C13_Done /\ TestPrefix(Len(TestOrders)) /\ loc[1].result = 4
  /\ C13_Case(GOOG) /\ Cardinality(OrdersOf(GOOG, "Sell")) = 2

\* C14: the price a match is reported at is the price of the Sell order whose
\* quantity the match took from, whatever the price of the buy order is.
C14_ReportStep ==
  \A t \in Threads :
    (pc[t] = "m_locks" /\ pc'[t] = "m_zb") =>
      \E s \in Slots :
        /\ orders[s].order_type = "Sell"
        /\ qty'[s] < qty[s]
        /\ s = loc[t].sell_head
        /\ orders[s].node = loc[t].current_ticker_node
        /\ loc'[t].match_price = orders[s].price
C14_PriceOfSell == [][C14_ReportStep]_vars
\* a match is reported between a buy order and a cheaper sell order
C14_Witness ==
  \E t \in Threads :
    /\ pc[t] = "m_zb"
    /\ orders[loc[t].buy_head].price > orders[loc[t].sell_head].price
    /\ loc[t].match_price = orders[loc[t].sell_head].price

\* C15: when a head-insertion CAS of addOrder succeeds (line 143 or line 196),
\* the new order's next is the head the CAS replaced, and the orders reachable
\* from the head afterwards are those reachable before and the new order.
ChainSet(n, side) == {Chain(n, side)[k] : k \in 1..Len(Chain(n, side))}
\* the orders reachable from o after the step, as far as k of them
RECURSIVE C15_ReachedAfter(_, _)
C15_ReachedAfter(o, k) ==
  IF o = None \/ k = 0 THEN {} ELSE {o} \cup C15_ReachedAfter(next'[o], k - 1)
C15_HeadStep ==
  \A t \in Threads :
    (pc[t] \in {"a_hcas", "a_fcas"} /\ pc'[t] # pc[t] /\ book' # book) =>
      LET l == loc[t]
          side == IF is_buy(l) THEN "Buy" ELSE "Sell"
      IN  /\ next[l.new_order] = book[l.books][side]
          /\ C15_ReachedAfter(book'[l.books][side], NumSlots + 1)
               = ChainSet(l.books, side) \cup {l.new_order}
C15_HeadInsertKeepsChain == [][C15_HeadStep]_vars

\* C16: when the tail CAS of addOrder (line 171) succeeds, the new order's
\* price outranks no order of the snapshot: an order for which a place between
\* two snapshot nodes was found is not appended at the tail.
C16_TailStep ==
  \A t \in Threads :
    (pc[t] = "a_tcas" /\ pc'[t] = "idle" /\ next' # next) =>
      \A i \in 1..Len(loc[t].nodes) : ~Outranks(loc[t], loc[t].nodes[i])
C16_TailOnlyWhenLast == [][C16_TailStep]_vars

\* C17: when no call is in flight, no order whose remaining quantity is 0 is
\* reachable from a book head.
Quiescent == \A t \in Threads : pc[t] = "idle"
C17_NoExhaustedOrderLinked ==
  Quiescent =>
    \A o \in Slots :
      Created(o) /\ qty[o] = 0 =>
        \A n \in Slots, side \in Sides : ~InChain(o, n, side)

\* C18: within one matchOrder call the matching loop of one symbol enters its
\* body at most MAX_MATCHING_ITERATIONS times, skipped and abandoned passes
\* included.
C18_PassesWithinCeiling ==
  \A t \in Threads :
    loc[t].op = "match" => loc[t].passes <= MAX_MATCHING_ITERATIONS

\* C19: for each symbol, the quantity filled on the buy side (original minus
\* remaining, summed over the symbol's buy orders) equals the quantity filled
\* on the sell side and equals the sum of the matched quantities of the matches
\* counted for the symbol; the decrement is applied to quantities that still
\* equal the snapshot, and an iteration abandoned by the re-check changes no
\* quantity and counts no match.  The two decrements of lines 261-262 are one
\* step: both quantity locks are held and no thread reads either quantity
\* in between.
RECURSIVE SumFilled(_)
SumFilled(S) ==
  IF S = {} THEN 0
  ELSE LET o == CHOOSE x \in S : TRUE
       IN  (orders[o].quantity - qty[o]) + SumFilled(S \ {o})
C19_Balanced ==
  \A sym \in AllSymbols :
    /\ SumFilled(OrdersOf(sym, "Buy")) = SumFilled(OrdersOf(sym, "Sell"))
    /\ SumFilled(OrdersOf(sym, "Buy")) = matched[sym].quantity
C19_UpdateStep ==
  \A t \in Threads :
    (pc[t] = "m_locks" /\ pc'[t] # "m_locks") =>
      IF qty[loc[t].buy_head] = loc[t].buy_qty_before
           /\ qty[loc[t].sell_head] = loc[t].sell_qty_before
        THEN /\ qty'[loc[t].buy_head] = qty[loc[t].buy_head] - loc[t].matched_quantity
             /\ qty'[loc[t].sell_head] = qty[loc[t].sell_head] - loc[t].matched_quantity
             /\ loc'[t].matches_count = loc[t].matches_count + 1
        ELSE /\ qty' = qty
             /\ matched' = matched
             /\ loc'[t].matches_count = loc[t].matches_count
C19_FilledOnce == []C19_Balanced /\ [][C19_UpdateStep]_vars
\* two matches were counted for one symbol and one of its orders is partly
\* filled
C19_Witness ==
  /\ Quiescent
  /\ \E sym \in AllSymbols :
       /\ matched[sym].count >= 2
       /\ matched[sym].quantity >= 2
       /\ \E o \in OrdersOf(sym, "Buy") \cup OrdersOf(sym, "Sell") :
            qty[o] > 0 /\ qty[o] < orders[o].quantity

\* C20: when one of the two crossing heads has remaining quantity 0, matchOrder
\* only tries to move that book's head past the exhausted order and counts no
\* match; every counted match has a matched quantity of at least 1 and is
\* counted in the iteration that decrements both quantities, and matchOrder
\* returns that count.
C20_SkipLabels == {"m_bn", "m_bcas", "m_sn", "m_scas"}
C20_SkipSide(label) == IF label \in {"m_bn", "m_bcas"} THEN "Buy" ELSE "Sell"
C20_SkipHead(l, label) ==
  IF label \in {"m_bn", "m_bcas"} THEN l.buy_head ELSE l.sell_head
\* lines 238-251: an exhausted head sends the pass to the skip
C20_SnapshotStep(t) ==
  (pc[t] = "m_qs" /\ pc'[t] # "m_qs") =>
    IF loc[t].buy_qty_before <= 0 \/ qty[loc[t].sell_head] <= 0
      THEN pc'[t] \in {"m_bn", "m_sn"}
      ELSE pc'[t] = "m_lockb" /\ loc'[t].matched_quantity >= 1
\* lines 242-248: the skip changes nothing but the head of that one book
C20_SkipStep(t) ==
  (pc[t] \in C20_SkipLabels /\ pc'[t] # pc[t]) =>
    /\ qty[C20_SkipHead(loc[t], pc[t])] = 0
    /\ qty' = qty /\ next' = next /\ matched' = matched
    /\ loc'[t].matches_count = loc[t].matches_count
    /\ \A n \in DOMAIN book, side \in Sides :
         book'[n][side] # book[n][side] =>
           /\ n = loc[t].current_ticker_node
           /\ side = C20_SkipSide(pc[t])
           /\ book[n][side] = C20_SkipHead(loc[t], pc[t])
           /\ book'[n][side] = loc[t].expected
\* lines 254-268: a match is counted exactly when the quantities go down
C20_CountStep(t) ==
  (pc[t] # "idle" /\ pc'[t] \notin {"idle", pc[t]} /\ loc[t].op = "match") =>
    IF loc'[t].matches_count # loc[t].matches_count \/ qty' # qty
      THEN /\ loc'[t].matches_count = loc[t].matches_count + 1
           /\ loc[t].matched_quantity >= 1
           /\ qty'[loc[t].buy_head] = qty[loc[t].buy_head] - loc[t].matched_quantity
           /\ qty'[loc[t].sell_head] = qty[loc[t].sell_head] - loc[t].matched_quantity
           /\ matched'[MatchSymbol(loc[t])].count = matched[MatchSymbol(loc[t])].count + 1
      ELSE matched' = matched
\* line 293: return matches_count
C20_ReturnStep(t) ==
  (pc[t] # "idle" /\ pc'[t] = "idle" /\ loc[t].op = "match") =>
    loc'[t].result = loc[t].matches_count
C20_Step ==
  \A t \in Threads :
    C20_SnapshotStep(t) /\ C20_SkipStep(t) /\ C20_CountStep(t) /\ C20_ReturnStep(t)
C20_SkipCountsNothing == [][C20_Step]_vars
\* a caller that has counted a match is about to move a head past an order
\* that another caller's match left at quantity 0
C20_Witness ==
  \E t \in Threads :
    /\ pc[t] \in {"m_bcas", "m_scas"}
    /\ loc[t].matches_count >= 1
    /\ book[loc[t].current_ticker_node][C20_SkipSide(pc[t])]
         = C20_SkipHead(loc[t], pc[t])

\* C21: when addOrder calls are made one after another, every book is sorted
\* by price priority after every call, and among orders of equal price the one
\* inserted first is nearer the head: a new order is linked behind every order
\* of its price and before the first order of worse price.  One thread makes
\* all the calls, so the order constructed later has the larger number.
C21_FirstComeFirst(n, side) ==
  \A j, k \in 1..Len(Chain(n, side)) :
    (j < k /\ orders[Chain(n, side)[j]].price = orders[Chain(n, side)[k]].price)
      => Chain(n, side)[j] < Chain(n, side)[k]
C21_PriceTimePriority ==
  \A n \in Slots, side \in Sides :
    Constructed(n) => Sorted(n, side) /\ C21_FirstComeFirst(n, side)
\* an order was linked between an earlier order of its price and an earlier
\* order of worse price
C21_Witness ==
  /\ pc[1] = "idle"
  /\ \E n \in Slots, side \in Sides :
       /\ Constructed(n)
       /\ Len(Chain(n, side)) >= 3
       /\ LET c == Chain(n, side) IN
            /\ orders[c[1]].price = orders[c[2]].price
            /\ orders[c[2]].price # orders[c[3]].price
            /\ c[1] < c[3] /\ c[3] < c[2]
            /\ qty[c[1]] = orders[c[1]].quantity

\* C22: concurrent matchOrder callers never deadlock on the quantity locks.
\* A thread that holds a quantity lock holds exactly one, the lock of the Buy
\* order it read as buy head, and the only lock it waits for is the lock of
\* the Sell order it read as sell head; a thread that keeps another waiting is
\* itself not waiting for a held lock, so there is no cycle of waiting threads,
\* and while a call is in flight some thread can take a step.
Holds(t) == {o \in Slots : qlock[o] = t}
\* the quantity whose lock thread t needs for its next step (lines 238, 239,
\* 254, 271, 274), None if the step takes no lock
Awaits(t) ==
  CASE pc[t] \in {"m_qb", "m_lockb", "m_zb"} -> loc[t].buy_head
    [] pc[t] \in {"m_qs", "m_locks", "m_zs"} -> loc[t].sell_head
    [] OTHER -> None
Blocked(t, u) == u # t /\ Awaits(t) # None /\ qlock[Awaits(t)] = u
C22_BuyThenSell ==
  \A t \in Threads :
    Holds(t) # {} =>
      /\ pc[t] = "m_locks"
      /\ Holds(t) = {loc[t].buy_head}
      /\ orders[loc[t].buy_head].order_type = "Buy"
      /\ orders[loc[t].sell_head].order_type = "Sell"
C22_NoWaitCycle ==
  \A t, u \in Threads : Blocked(t, u) => \A v \in Threads : ~Blocked(u, v)
C22_SomeoneMoves ==
  (\E t \in Threads : pc[t] # "idle") =>
    \E t \in Threads : ENABLED (AddSteps(t) \/ MatchSteps(t))
C22_NoDeadlock == C22_BuyThenSell /\ C22_NoWaitCycle /\ C22_SomeoneMoves
\* one caller holds the buy head's lock and is about to take the sell head's,
\* while another caller waits for the lock that is held
C22_Witness ==
  \E t, u \in Threads :
    /\ Blocked(u, t)
    /\ pc[t] = "m_locks" /\ pc[u] = "m_lockb"
    /\ loc[u].sell_head = loc[t].sell_head

\* C23: an addOrder call for a valid order during which no other call runs
\* succeeds on its first attempt: at every step it takes retries is 0, it never
\* backs off and never enters the fallback, and it returns the order's handle
\* from the CAS of the main loop, at the head, between two orders or at the
\* tail.
C23_FallbackLabels == {"a_f1", "a_f2", "a_fcas"}
C23_AloneStep ==
  \A t \in Threads :
    (/\ alone[t] /\ loc[t].op = "add" /\ pc[t] # "idle"
     /\ (pc'[t] # pc[t] \/ loc'[t] # loc[t]))
    => /\ loc[t].retries = 0
       /\ pc[t] \notin C23_FallbackLabels
       /\ IF pc'[t] = "idle"
            THEN /\ pc[t] \in {"a_hcas", "a_mcas", "a_tcas"}
                 /\ loc'[t].result = loc[t].new_order
                 /\ outcome'[loc[t].new_order] = "ok"
                 /\ LET o == loc[t].new_order IN
                      \/ book'[orders[o].node][orders[o].order_type] = o
                      \/ \E p \in Slots \ {o} : Created(p) /\ next'[p] = o
            ELSE /\ loc'[t].retries = 0
                 /\ pc'[t] \notin C23_FallbackLabels
C23_FirstAttempt == [][C23_AloneStep]_vars
\* a call that ran alone has put its order between two orders of a book, after
\* the other thread's calls
C23_Witness ==
  \E t \in Threads :
    /\ alone[t] /\ pc[t] = "idle" /\ loc[t].op = "add" /\ loc[t].result # None
    /\ outcome[loc[t].result] = "ok"
    /\ next[loc[t].result] # None
    /\ \E p \in Slots : Created(p) /\ next[p] = loc[t].result
    /\ \E u \in Threads \ {t} : nadd[u] >= 1

\* C24: add_order of advance.py links each new order exactly once: a call
\* whose link CAS succeeded goes on only to the test of line 99 and to line
\* 102, without entering the loop of line 73 again for the same order, and the
\* next-links from any book head end at None and pass no order twice.
C24_NoSecondAttempt ==
  \A t \in Threads :
    (loc[t].new_order # None /\ outcome[loc[t].new_order] = "ok")
      => pc[t] \in {"v_achk", "v_log"}
C24_NoCycle ==
  \A n \in Slots, side \in Sides :
    /\ Len(Chain(n, side)) <= NumSlots
    /\ \A j, k \in 1..Len(Chain(n, side)) :
         j # k => Chain(n, side)[j] # Chain(n, side)[k]
C24_LinkedOnce == C24_NoSecondAttempt /\ C24_NoCycle

\* C25: under concurrent match_orders calls of advance.py on one pair of
\* books no order's quantity becomes negative, and the amount a call subtracts
\* while it holds the two quantity locks is at most the quantity each of the
\* two orders holds at that moment.
C25_NonNegative == \A o \in Slots : qty[o] >= 0
C25_UpdateStep ==
  \A t \in Threads :
    (pc[t] = "v_mls" /\ pc'[t] = "v_mzb") =>
      /\ loc[t].matched_quantity <= qty[loc[t].buy_head]
      /\ loc[t].matched_quantity <= qty[loc[t].sell_head]
C25_NeverOversold == []C25_NonNegative /\ [][C25_UpdateStep]_vars

\* C26: get_or_create_books of advance.py gives distinct tickers distinct
\* pairs of books, also when their indices are equal: the pair a call receives
\* was made for the call's ticker, every order is added to a pair made for its
\* own ticker, and a match decrements a Buy and a Sell order of one ticker.
C26_OwnBooks ==
  /\ \A t \in Threads :
       (pc[t] # "idle" /\ loc[t].books # None)
         => nodeSym[loc[t].books] = loc[t].ticker_symbol
  /\ \A o \in Slots :
       Created(o) => nodeSym[orders[o].node] = orders[o].ticker
C26_MatchStep ==
  \A t \in Threads :
    (pc[t] = "v_mls" /\ pc'[t] = "v_mzb") =>
      orders[loc[t].buy_head].ticker = orders[loc[t].sell_head].ticker
C26_TickersApart == []C26_OwnBooks /\ [][C26_MatchStep]_vars

====
